---- MODULE Spec2Model ----
(***************************************************************************)
(* A model of crabtime's build-time code-generation engine                 *)
(* (src/macro/src/lib.rs): the ephemeral build orchestrator (eval_fn_impl, *)
(* Paths::with_output_dir, create_project_skeleton, run_cargo_project) and *)
(* the protocol parser (parse_output), the pattern compiler (parse_args),  *)
(* the form expanders (expand_builtin_macro, expand_expand_macro) and the  *)
(* token serializer (print_tokens).                                        *)
(*                                                                         *)
(* A body of tokens is written as a sequence of pieces, an identifier      *)
(* being one piece.                                                        *)
(*                                                                         *)
(* Text is a sequence of one-character strings; a subprocess stream is a   *)
(* sequence of bytes, an ASCII byte being its character and InvalidByte a  *)
(* byte that is not valid UTF-8.                                           *)
(***************************************************************************)
EXTENDS Integers, Sequences, FiniteSets, TLC

\* ------------------------------------------------------------------------
\* Bounds of the model
\* ------------------------------------------------------------------------

\* Lines of a stdout text handed to parse_output.
MaxLines == 2

\* Invocations of eval_fn one after the other in one process run.
MaxRuns == 2

\* Parameters of a function given to parse_args.
MaxParams == 2

\* Forms and groups one inside another in a body given to the expanders.
MaxDepth == 2

\* Brace groups one inside another in a body given to the serializer.
MaxNesting == 2

\* ------------------------------------------------------------------------
\* Constants of the program
\* ------------------------------------------------------------------------

OUTPUT_PREFIX == <<"[", "O", "U", "T", "P", "U", "T", "]">>

\* Level::WARNING_PREFIX of mod error.
WARNING_PREFIX == <<"[", "W", "A", "R", "N", "I", "N", "G", "]">>

\* Level::ERROR_PREFIX of mod error.
ERROR_PREFIX == <<"[", "E", "R", "R", "O", "R", "]">>

CRATE == "crabtime"

DEFAULT_EDITION == <<"2", "0", "2", "4">>

DEFAULT_RESOLVER == <<"3">>

\* "thread 'main' panicked", the text run_cargo_project looks for in stderr.
PANIC_MARKER ==
    <<"t", "h", "r", "e", "a", "d", " ", "'", "m", "a", "i", "n", "'", " ",
      "p", "a", "n", "i", "c", "k", "e", "d">>

\* A byte of a subprocess stream that is not valid UTF-8.
InvalidByte == "<FF>"

\* U+FFFD, which String::from_utf8_lossy puts for an invalid byte.
REPLACEMENT_CHARACTER == "<U+FFFD>"

\* ------------------------------------------------------------------------
\* Text operations of the standard library, as the code uses them
\* ------------------------------------------------------------------------

None == [some |-> FALSE]

Some(v) == [some |-> TRUE, val |-> v]

\* char::is_whitespace on the characters of the model's alphabet.
is_whitespace(c) == c \in {" ", "\t", "\r", "\n"}

RECURSIVE trim_start(_)
\* str::trim_start
trim_start(s) ==
    IF s = <<>> THEN <<>>
    ELSE IF is_whitespace(Head(s)) THEN trim_start(Tail(s))
    ELSE s

RECURSIVE trim_end(_)
\* str::trim_end
trim_end(s) ==
    IF s = <<>> THEN <<>>
    ELSE IF is_whitespace(s[Len(s)]) THEN trim_end(SubSeq(s, 1, Len(s) - 1))
    ELSE s

\* str::trim
trim(s) == trim_end(trim_start(s))

\* str::starts_with
starts_with(s, prefix) ==
    /\ Len(s) >= Len(prefix)
    /\ SubSeq(s, 1, Len(prefix)) = prefix

\* str::strip_prefix
strip_prefix(s, prefix) ==
    IF starts_with(s, prefix)
    THEN Some(SubSeq(s, Len(prefix) + 1, Len(s)))
    ELSE None

RECURSIVE split(_, _)
\* str::split(char), collected: the pieces between the separators.
split(s, sep) ==
    IF \E i \in 1..Len(s) : s[i] = sep
    THEN LET i == CHOOSE k \in 1..Len(s) :
                      /\ s[k] = sep
                      /\ \A j \in 1..(k - 1) : s[j] # sep
         IN  <<SubSeq(s, 1, i - 1)>> \o split(SubSeq(s, i + 1, Len(s)), sep)
    ELSE <<s>>

\* ------------------------------------------------------------------------
\* Protocol parser: parse_output
\* ------------------------------------------------------------------------

\* The sinks of parse_output before the first line.
parse_output_init ==
    [code |-> <<>>, warnings |-> <<>>, errors |-> <<>>, echoed |-> <<>>]

\* parse_line with the generated-code branch testing the untrimmed line.
parse_line_untrimmed(acc, line) ==
    LET line_trimmed == trim(line)
        out  == strip_prefix(line, OUTPUT_PREFIX)
        warn == strip_prefix(line_trimmed, WARNING_PREFIX)
        err  == strip_prefix(line_trimmed, ERROR_PREFIX)
    IN  IF out.some
        THEN [acc EXCEPT !.code = @ \o out.val \o <<"\n">>]
        ELSE IF warn.some
        THEN [acc EXCEPT !.warnings = Append(@, warn.val)]
        ELSE IF err.some
        THEN [acc EXCEPT !.errors = Append(@, err.val)]
        ELSE IF line_trimmed # <<>>
        THEN [acc EXCEPT !.echoed = Append(@, line)]
        ELSE acc

\* parse_line with the unprefixed line echoed trimmed instead of as read.
parse_line_echo_trimmed(acc, line) ==
    LET line_trimmed == trim(line)
        out  == strip_prefix(line_trimmed, OUTPUT_PREFIX)
        warn == strip_prefix(line_trimmed, WARNING_PREFIX)
        err  == strip_prefix(line_trimmed, ERROR_PREFIX)
    IN  IF out.some
        THEN [acc EXCEPT !.code = @ \o out.val \o <<"\n">>]
        ELSE IF warn.some
        THEN [acc EXCEPT !.warnings = Append(@, warn.val)]
        ELSE IF err.some
        THEN [acc EXCEPT !.errors = Append(@, err.val)]
        ELSE IF line_trimmed # <<>>
        THEN [acc EXCEPT !.echoed = Append(@, line_trimmed)]
        ELSE acc

\* parse_line with the separating space stripped together with the
\* generated-code marker.
parse_line_strip_space(acc, line) ==
    LET line_trimmed == trim(line)
        out  == strip_prefix(line_trimmed, OUTPUT_PREFIX)
        warn == strip_prefix(line_trimmed, WARNING_PREFIX)
        err  == strip_prefix(line_trimmed, ERROR_PREFIX)
    IN  IF out.some
        THEN [acc EXCEPT !.code = @ \o (IF starts_with(out.val, <<" ">>)
                                          THEN Tail(out.val) ELSE out.val)
                                     \o <<"\n">>]
        ELSE IF warn.some
        THEN [acc EXCEPT !.warnings = Append(@, warn.val)]
        ELSE IF err.some
        THEN [acc EXCEPT !.errors = Append(@, err.val)]
        ELSE IF line_trimmed # <<>>
        THEN [acc EXCEPT !.echoed = Append(@, line)]
        ELSE acc

\* parse_line with a marker recognized only when a space follows it.
parse_line_require_space(acc, line) ==
    LET line_trimmed == trim(line)
        out  == strip_prefix(line_trimmed, OUTPUT_PREFIX \o <<" ">>)
        warn == strip_prefix(line_trimmed, WARNING_PREFIX \o <<" ">>)
        err  == strip_prefix(line_trimmed, ERROR_PREFIX \o <<" ">>)
    IN  IF out.some
        THEN [acc EXCEPT !.code = @ \o <<" ">> \o out.val \o <<"\n">>]
        ELSE IF warn.some
        THEN [acc EXCEPT !.warnings = Append(@, <<" ">> \o warn.val)]
        ELSE IF err.some
        THEN [acc EXCEPT !.errors = Append(@, <<" ">> \o err.val)]
        ELSE IF line_trimmed # <<>>
        THEN [acc EXCEPT !.echoed = Append(@, line)]
        ELSE acc

\* Body of the loop of parse_output: one line dispatched to its sink.
parse_line(acc, line) ==
    LET line_trimmed == trim(line)
        out  == strip_prefix(line_trimmed, OUTPUT_PREFIX)
        warn == strip_prefix(line_trimmed, WARNING_PREFIX)
        err  == strip_prefix(line_trimmed, ERROR_PREFIX)
    IN  IF out.some
        THEN [acc EXCEPT !.code = @ \o out.val \o <<"\n">>]
        ELSE IF warn.some
        THEN [acc EXCEPT !.warnings = Append(@, warn.val)]
        ELSE IF err.some
        THEN [acc EXCEPT !.errors = Append(@, err.val)]
        ELSE IF line_trimmed # <<>>
        THEN [acc EXCEPT !.echoed = Append(@, line)]
        ELSE acc

RECURSIVE parse_lines(_, _)
\* The loop of parse_output over the lines still to read.
parse_lines(acc, lines) ==
    IF lines = <<>> THEN acc
    ELSE parse_lines(parse_line(acc, Head(lines)), Tail(lines))

\* parse_output: the generated code, with what went to the other sinks.
parse_output(output) == parse_lines(parse_output_init, split(output, "\n"))

\* ------------------------------------------------------------------------
\* Inputs of the protocol parser
\* ------------------------------------------------------------------------

\* What a line may start with: a marker, a marker in another case, or
\* nothing.
LineHeads ==
    { OUTPUT_PREFIX, WARNING_PREFIX, ERROR_PREFIX,
      <<"[", "o", "u", "t", "p", "u", "t", "]">>,
      <<>> }

\* What follows the head: the separating space and a payload, a payload
\* that touches the head, a payload that ends in whitespace, or nothing.
LineTails == { <<>>, <<" ", "a">>, <<"x">>, <<" ", "a", " ", "b", "\r">> }

\* Whitespace before the head.
LineIndents == { <<>>, <<" ">> }

\* The lines of a subprocess's stdout (no line holds a line break).
StdoutLines ==
    { indent \o head \o tail :
        indent \in LineIndents, head \in LineHeads, tail \in LineTails }

RECURSIVE join_lines(_)
\* Lines joined by line breaks, as println! leaves them in a stream.
join_lines(lines) ==
    IF lines = <<>> THEN <<>>
    ELSE IF Len(lines) = 1 THEN Head(lines)
    ELSE Head(lines) \o <<"\n">> \o join_lines(Tail(lines))

\* Sequences of at most n lines.
LineSeqs(n) == UNION { [1..k -> StdoutLines] : k \in 0..n }

\* ------------------------------------------------------------------------
\* More of the standard library
\* ------------------------------------------------------------------------

Ok(v) == [ok |-> TRUE, val |-> v]

Err(msg) == [ok |-> FALSE, err |-> msg]

\* String::from_utf8_lossy on a stream of ASCII and invalid bytes: every
\* invalid byte becomes U+FFFD.
from_utf8_lossy(bytes) ==
    [i \in 1..Len(bytes) |->
        IF bytes[i] = InvalidByte THEN REPLACEMENT_CHARACTER ELSE bytes[i]]

\* str::find(&str): the index of the first occurrence of pat, if any.
find(s, pat) ==
    LET hits == {i \in 1..(Len(s) - Len(pat) + 1) :
                    SubSeq(s, i, i + Len(pat) - 1) = pat}
    IN  IF hits = {} THEN None
        ELSE Some(CHOOSE i \in hits : \A j \in hits : i <= j)

\* str::replace(" ", "")
remove_spaces(s) == SelectSeq(s, LAMBDA c : c # " ")

\* str::split_once(char): the text before and after the first separator.
split_once(s, sep) ==
    LET at == find(s, <<sep>>)
    IN  IF at.some
        THEN Some(<<SubSeq(s, 1, at.val - 1), SubSeq(s, at.val + 1, Len(s))>>)
        ELSE None

\* ------------------------------------------------------------------------
\* MacroOptions
\* ------------------------------------------------------------------------

\* impl Default for MacroOptions
MacroOptions_default == [cache |-> TRUE, content_base_name |-> FALSE]

RECURSIVE MacroOptions_parse_from(_, _)
\* The loop of MacroOptions::parse over the options still to read; an
\* option is its identifier, whether `=` follows it, and its literal.
MacroOptions_parse_from(input, options) ==
    IF input = <<>> THEN Ok(options)
    ELSE LET opt == Head(input)
         IN  IF ~opt.eq THEN Err("expected =")
             ELSE IF opt.ident = "cache"
             THEN IF opt.lit \in {"true", "false"}
                  THEN MacroOptions_parse_from(Tail(input),
                           [options EXCEPT !.cache = (opt.lit = "true")])
                  ELSE Err("expected boolean literal")
             ELSE IF opt.ident = "content_base_name"
             THEN IF opt.lit \in {"true", "false"}
                  THEN MacroOptions_parse_from(Tail(input),
                           [options EXCEPT !.content_base_name = (opt.lit = "true")])
                  ELSE Err("expected boolean literal")
             ELSE Err("unknown attribute")

\* MacroOptions::parse
MacroOptions_parse(input) == MacroOptions_parse_from(input, MacroOptions_default)

\* ------------------------------------------------------------------------
\* Paths
\* ------------------------------------------------------------------------

\* The 64-bit range of DefaultHasher, scaled down.
HashRange == 16

\* DefaultHasher over the text of an invocation body.
DefaultHasher(input_str) == (7 * input_str + 3) % HashRange

\* format!("{:x}") of a hash.
LowerHex(h) ==
    <<"0", "1", "2", "3", "4", "5", "6", "7",
      "8", "9", "a", "b", "c", "d", "e", "f">>[h + 1]

\* project_name_from_input
project_name_from_input(input_str) ==
    "project_" \o LowerHex(DefaultHasher(input_str))

\* Paths::new under cfg(nightly): the directory is keyed by the call site's
\* source file and the macro's name (or the content hash), and the
\* enclosing manifests are looked up (found tells whether any exists).
Paths_new_nightly(options, macro_name, input_str, call_site_path, found) ==
    LET name == IF options.content_base_name
                THEN project_name_from_input(input_str)
                ELSE macro_name
    IN  IF found
        THEN Ok([output_dir |-> <<call_site_path, name>>,
                 cargo_toml_path |-> TRUE])
        ELSE Err("No 'Cargo.toml' files found in parent directories")

\* Paths::new under cfg(not(nightly)): the directory is keyed by the
\* content hash alone.
Paths_new_stable(options, macro_name, input_str) ==
    Ok([output_dir |-> <<CRATE, project_name_from_input(input_str)>>,
        cargo_toml_path |-> FALSE])

\* ------------------------------------------------------------------------
\* CargoConfig
\* ------------------------------------------------------------------------

\* Dependency::new
Dependency_new(label, tokens_str, token_range) ==
    [label |-> label, tokens_str |-> tokens_str, token_range |-> token_range]

\* CargoConfig::default
CargoConfig_default ==
    [edition |-> None, resolver |-> None, dependencies |-> <<>>]

\* CargoConfig::contains_dependency
contains_dependency(cfg, name) ==
    \E i \in 1..Len(cfg.dependencies) : cfg.dependencies[i].label = name

\* CargoConfig::print: the manifest, as its edition, its resolver and its
\* dependency lines `label = tokens`.
print(cfg) ==
    [edition  |-> IF cfg.edition.some THEN cfg.edition.val ELSE DEFAULT_EDITION,
     resolver |-> IF cfg.resolver.some THEN cfg.resolver.val ELSE DEFAULT_RESOLVER,
     dependencies |->
        [i \in 1..Len(cfg.dependencies) |->
            cfg.dependencies[i].label \o <<" ", "=", " ">>
                \o cfg.dependencies[i].tokens_str]]

\* CargoConfig::fill_from_cargo_toml; the manifest file is whether it can
\* be read, whether it is TOML, its [build-dependencies] and its
\* package.edition.
fill_from_cargo_toml(cfg, file) ==
    IF ~file.readable THEN Err("io error")
    ELSE IF ~file.parsable THEN Err("toml error")
    ELSE LET dependencies ==
                 [i \in 1..Len(file.build_dependencies) |->
                     Dependency_new(file.build_dependencies[i][1],
                                    file.build_dependencies[i][2], FALSE)]
             edition == IF file.edition.some THEN file.edition.val
                        ELSE <<"2", "0", "2", "4">>
         IN  Ok([cfg EXCEPT !.dependencies = @ \o dependencies,
                            !.edition = Some(edition)])

RECURSIVE extract_inline_attributes_from(_, _, _, _)
\* The loop of CargoConfig::extract_inline_attributes; an attribute is its
\* path and the text of its arguments (none when they do not parse).
extract_inline_attributes_from(cfg, attributes, new_dependencies, other_attributes) ==
    IF attributes = <<>>
    THEN Ok([cfg |-> [cfg EXCEPT !.dependencies = @ \o new_dependencies],
             attributes |-> other_attributes])
    ELSE LET attr == Head(attributes)
         IN  IF ~attr.tokens.some THEN Err("Failed to parse attributes")
             ELSE LET tokens_str == remove_spaces(attr.tokens.val)
                      token_range == attr.tokens.val # <<>>
                  IN  IF attr.path = "dependency"
                      THEN LET kv == split_once(tokens_str, "=")
                           IN  IF ~kv.some THEN Err("Incorrect dependency")
                               ELSE extract_inline_attributes_from(cfg,
                                        Tail(attributes),
                                        Append(new_dependencies,
                                            Dependency_new(kv.val[1], kv.val[2],
                                                           token_range)),
                                        other_attributes)
                      ELSE IF attr.path = "edition"
                      THEN extract_inline_attributes_from(
                               [cfg EXCEPT !.edition = Some(tokens_str)],
                               Tail(attributes), new_dependencies,
                               other_attributes)
                      ELSE extract_inline_attributes_from(cfg,
                               Tail(attributes), new_dependencies,
                               Append(other_attributes, attr))

\* extract_inline_attributes with an inline dependency replacing the
\* inherited dependencies of the same label.
extract_inline_attributes_override(cfg, attributes) ==
    LET extracted == extract_inline_attributes_from(cfg, attributes, <<>>, <<>>)
        inherited == Len(cfg.dependencies)
        all == extracted.val.cfg.dependencies
        Kept(i) == i > inherited
                      \/ \A j \in (inherited + 1)..Len(all) :
                            all[j].label # all[i].label
        RECURSIVE keep(_)
        keep(i) == IF i > Len(all) THEN <<>>
                   ELSE IF Kept(i) THEN <<all[i]>> \o keep(i + 1)
                   ELSE keep(i + 1)
    IN  IF ~extracted.ok THEN extracted
        ELSE Ok([cfg |-> [extracted.val.cfg EXCEPT !.dependencies = keep(1)],
                 attributes |-> extracted.val.attributes])

\* CargoConfig::extract_inline_attributes
extract_inline_attributes(cfg, attributes) ==
    extract_inline_attributes_from(cfg, attributes, <<>>, <<>>)

\* prepare_input_code: the entry-point source, as the parts it is
\* formatted from.
prepare_input_code(attributes, body, output_tp, include_token_stream_impl) ==
    [attributes |-> attributes, body |-> body, output_tp |-> output_tp,
     include_token_stream_impl |-> include_token_stream_impl]

\* ------------------------------------------------------------------------
\* run_cargo_project, after the subprocess has exited
\* ------------------------------------------------------------------------

\* The result of run_cargo_project with stderr searched from its end: a
\* panic carries the text from the last marker.
cargo_result_last_marker(output) ==
    IF ~output.success
    THEN LET stderr == from_utf8_lossy(output.stderr)
             hits == {i \in 1..Len(stderr) :
                         starts_with(SubSeq(stderr, i, Len(stderr)), PANIC_MARKER)}
         IN  IF hits # {}
             THEN [kind |-> "Panic", eprint |-> Some(stderr),
                   val |-> SubSeq(stderr,
                                  CHOOSE i \in hits : \A j \in hits : j <= i,
                                  Len(stderr)),
                   msg |-> ""]
             ELSE [kind |-> "Err", eprint |-> Some(stderr), val |-> <<>>,
                   msg |-> "Compilation of the generated code failed."]
    ELSE [kind |-> "Ok", eprint |-> None,
          val |-> from_utf8_lossy(output.stdout), msg |-> ""]

\* The result of run_cargo_project for the Output of `cargo run`: what it
\* prints to stderr, and whether it returns stdout, returns an error or
\* panics with a message.
cargo_result(output) ==
    IF ~output.success
    THEN LET stderr == from_utf8_lossy(output.stderr)
             index == find(stderr, PANIC_MARKER)
         IN  IF index.some
             THEN [kind |-> "Panic", eprint |-> Some(stderr),
                   val |-> SubSeq(stderr, index.val, Len(stderr)), msg |-> ""]
             ELSE [kind |-> "Err", eprint |-> Some(stderr), val |-> <<>>,
                   msg |-> "Compilation of the generated code failed."]
    ELSE [kind |-> "Ok", eprint |-> None,
          val |-> from_utf8_lossy(output.stdout), msg |-> ""]

\* ------------------------------------------------------------------------
\* Inputs of the orchestrator
\* ------------------------------------------------------------------------

\* The invocations: the orchestrator runs as 1, a concurrent one as 2.
Procs == {1, 2}

\* The texts of invocation bodies, after expansion of the builtin forms:
\* two different texts, each named by a number.
Bodies == {0, 1}

MacroNames == {"gen"}

\* The source files of call sites, without extension.
CallSites == {"src/lib"}

Opt(ident, eq, lit) == [ident |-> ident, eq |-> eq, lit |-> lit]

\* Attribute arguments of #[eval_fn(...)]: well-formed and malformed.
OptionInputs ==
    { <<>>,
      <<Opt("cache", TRUE, "false")>>,
      <<Opt("content_base_name", TRUE, "true")>>,
      <<Opt("cache", TRUE, "false"), Opt("content_base_name", TRUE, "true")>>,
      <<Opt("colour", TRUE, "true")>>,
      <<Opt("cache", FALSE, "")>>,
      <<Opt("cache", TRUE, "1")>> }

Attr(path, tokens) == [path |-> path, tokens |-> tokens]

\* Inner attributes of an invocation body.
AttrLists ==
    { <<>>,
      <<Attr("dependency", Some(<<"a">>))>>,
      <<Attr("edition", Some(<<"2", "0", "2", "1">>)),
        Attr("allow", Some(<<"u">>))>>,
      <<Attr("dependency", Some(<<"b", " ", "=", " ", "2">>)),
        Attr("dependency", Some(<<"a", "=", "1">>)),
        Attr("resolver", Some(<<"2">>))>>,
      <<Attr("allow", None)>> }

\* What syn::parse::<ItemFn> is given: a function or something else.
ItemInputs ==
    [parsable : {TRUE}, ident : MacroNames, attrs : AttrLists, body : Bodies,
     output : {"()"}]
    \cup {[parsable |-> FALSE, ident |-> "", attrs |-> <<>>, body |-> 0,
            output |-> ""]}

\* The nearest enclosing Cargo.toml, as fill_from_cargo_toml finds it.
EnclosingManifests ==
    { [readable |-> FALSE, parsable |-> FALSE, build_dependencies |-> <<>>,
       edition |-> None],
      [readable |-> TRUE, parsable |-> FALSE, build_dependencies |-> <<>>,
       edition |-> None],
      [readable |-> TRUE, parsable |-> TRUE, build_dependencies |-> <<>>,
       edition |-> None],
      [readable |-> TRUE, parsable |-> TRUE,
       build_dependencies |-> << << <<"b">>, <<"1">> >> >>,
       edition |-> Some(<<"2", "0", "1", "8">>)] }

\* What the generated program may leave on stdout.
StdoutStreams ==
    { <<>>,
      OUTPUT_PREFIX \o <<" ", "a", "\n">>,
      <<InvalidByte, "\n">> \o OUTPUT_PREFIX \o <<" ", "b", "\n">> }

\* What cargo and the generated program may leave on stderr.
StderrStreams ==
    { <<"e">>,
      PANIC_MARKER \o <<" ", "x">>,
      <<"e", InvalidByte>> \o PANIC_MARKER \o <<"\n">> \o PANIC_MARKER }

\* std::process::Output of `cargo run`: a successful exit with any stdout,
\* also when stderr holds the panic marker, and a failed one with any
\* stderr and something on stdout.
ProcessOutputs ==
    [success : {TRUE}, stdout : StdoutStreams,
     stderr : {<<"e">>, PANIC_MARKER \o <<" ", "x">>}]
    \cup [success : {FALSE}, stdout : {OUTPUT_PREFIX \o <<" ", "a", "\n">>},
          stderr : StderrStreams]

\* The names project_name_from_input can give.
ProjectNames == {project_name_from_input(b) : b \in Bodies}

\* The working directories Paths::new can resolve to.
OutputDirs ==
    {<<c, n>> : c \in CallSites, n \in MacroNames \cup ProjectNames}
    \cup {<<CRATE, n>> : n \in ProjectNames}

\* A directory that does not exist.
NoDir == [exists |-> FALSE, src |-> FALSE, cargo_toml |-> None, main_rs |-> None]

\* An invocation that has not started.
IdleInvocation ==
    [pc         |-> "idle",
     options    |-> MacroOptions_default,
     item       |-> [parsable |-> FALSE, ident |-> "", attrs |-> <<>>,
                     body |-> 0, output |-> ""],
     call_site  |-> "",
     paths      |-> [output_dir |-> <<"", "">>, cargo_toml_path |-> FALSE],
     manifest   |-> None,
     cfg        |-> CargoConfig_default,
     attributes |-> <<>>,
     input_code |-> None,
     was_cached |-> FALSE,
     seen       |-> None,
     output     |-> None,
     out        |-> [kind |-> "None", eprint |-> None, val |-> <<>>, msg |-> ""],
     result     |-> [kind |-> "None", stage |-> "", msg |-> "", val |-> <<>>],
     trace      |-> <<>>]

\* ------------------------------------------------------------------------
\* parse_args: from the parameters of a function to the pattern of the
\* macro and the code that decodes its arguments. Token streams are
\* sequences of tokens.
\* ------------------------------------------------------------------------

WRONG_ARGS == "Function should have zero or one argument, one of: pattern!(<pattern>): _ , input: TokenStream"

\* The last element of a sequence that is not empty.
last(seq) == seq[Len(seq)]

\* syn::Type values: a path with its segments and the generic arguments of
\* the last one, a reference, and the placeholder `_`.
TypePath(segments, args) == [kind |-> "Path", segments |-> segments, args |-> args]

TypeReference(elem) == [kind |-> "Reference", elem |-> elem]

TypeInfer == [kind |-> "Infer"]

RECURSIVE to_tokens(_)
\* quote!{ #ty }
to_tokens(ty) ==
    IF ty.kind = "Reference" THEN <<"&">> \o to_tokens(ty.elem)
    ELSE IF ty.kind = "Infer" THEN <<"_">>
    ELSE LET RECURSIVE path(_)
             path(segments) ==
                 IF Len(segments) = 1 THEN segments
                 ELSE <<Head(segments), "::">> \o path(Tail(segments))
         IN  path(ty.segments)
                \o (IF ty.args = <<>> THEN <<>>
                    ELSE <<"<">> \o to_tokens(ty.args[1]) \o <<">">>)

\* The integer types of parse_inner_type.
IntegerTypes ==
    {"usize", "u8", "u16", "u32", "u64", "u128",
     "isize", "i8", "i16", "i32", "i64", "i128"}

\* parse_inner_type: (pattern, code) for a type that is not a vector.
parse_inner_type(pfx, ty) ==
    LET arg == <<"$", pfx \o "_arg">>
    IN  IF ty.kind = "Reference"
        THEN IF ty.elem.kind = "Path" /\ last(ty.elem.segments) = "str"
             THEN Some(<<arg \o <<":", "expr">>,
                         <<"crabtime", "::", "stringify_if_needed", "!", "{">>
                            \o arg \o <<"}">> >>)
             ELSE None
        ELSE IF ty.kind = "Path"
        THEN LET ident_str == last(ty.segments)
             IN  IF ident_str = "String"
                 THEN Some(<<arg \o <<":", "expr">>,
                             <<"crabtime", "::", "stringify_if_needed", "!", "(">>
                                \o arg \o <<")", ".", "to_string", "(", ")">> >>)
                 ELSE IF ident_str \in IntegerTypes
                 THEN Some(<<arg \o <<":", "literal">>, arg>>)
                 ELSE None
        ELSE None

\* parse_arg_type: (pattern, code) for a type, vector or not.
parse_arg_type(pfx, ty) ==
    IF ty.kind = "Path"
    THEN LET last_segment == last(ty.segments)
         IN  IF last_segment = "Vec"
             THEN IF ty.args # <<>>
                  THEN LET inner == parse_inner_type(pfx, ty.args[1])
                       IN  IF inner.some
                           THEN Some(<< <<"[", "$", "(">> \o inner.val[1]
                                           \o <<")", ",", "*", "$", "(", ",",
                                                ")", "?", "]">>,
                                        <<"[", "$", "(">> \o inner.val[2]
                                           \o <<")", ",", "*", "]", ".",
                                                "into_iter", "(", ")", ".",
                                                "collect", "(", ")">> >>)
                           ELSE None
                  ELSE None
             ELSE parse_inner_type(pfx, ty)
    ELSE None

\* syn::FnArg values: a receiver, or a typed argument whose pattern is an
\* identifier or a macro call (with the tokens given to the macro).
FnArg_Receiver ==
    [typed |-> FALSE, pat |-> "", name |-> "", tokens |-> <<>>, ty |-> TypeInfer]

FnArg_Ident(name, ty) ==
    [typed |-> TRUE, pat |-> "Ident", name |-> name, tokens |-> <<>>, ty |-> ty]

FnArg_Macro(tokens) ==
    [typed |-> TRUE, pat |-> "Macro", name |-> "", tokens |-> tokens,
     ty |-> TypeInfer]

\* The two variants of Args.
Args_Pattern(str) == [variant |-> "Pattern", str |-> str]

Args_TokenStream(ident) == [variant |-> "TokenStream", ident |-> ident]

\* Args::pattern
Args_pattern(args) ==
    IF args.variant = "TokenStream"
    THEN <<"$", "(", "$", args.ident, ":", "tt", ")", "*">>
    ELSE args.str

\* Args::setup
Args_setup(args) ==
    IF args.variant = "TokenStream"
    THEN <<"use", "proc_macro2", "::", "TokenStream", ";",
           "let", args.ident, ":", "TokenStream", "=", "stringify", "!", "(",
           "$", "(", "$", args.ident, ")", "*", ")", ".", "parse", "(", ")",
           ".", "unwrap", "(", ")", ";">>
    ELSE <<>>

\* parse_args_for_pattern
parse_args_for_pattern(arg) ==
    IF ~arg.typed THEN None
    ELSE IF arg.pat # "Macro" THEN None
    ELSE Some(Args_Pattern(arg.tokens))

\* parse_args_for_token_stream
parse_args_for_token_stream(arg) ==
    IF ~arg.typed THEN None
    ELSE IF arg.pat # "Ident" THEN None
    ELSE IF to_tokens(arg.ty) # <<"TokenStream">> THEN None
    ELSE Some(Args_TokenStream(arg.name))

\* The loop of parse_args before its first argument.
parse_args_init == [is_first |-> TRUE, pat |-> <<>>, code |-> <<>>]

\* The body of the loop of parse_args, for one argument.
parse_args_arg(acc, arg) ==
    LET pat == IF ~acc.is_first THEN acc.pat \o <<",">> ELSE acc.pat
    IN  IF arg.typed /\ arg.pat = "Ident"
        THEN LET code == acc.code \o <<"let", arg.name, ":">>
                            \o to_tokens(arg.ty) \o <<"=">>
                 param == parse_arg_type(arg.name, arg.ty)
             IN  [is_first |-> FALSE,
                  pat  |-> IF param.some THEN pat \o param.val[1] ELSE pat,
                  code |-> (IF param.some THEN code \o param.val[2] ELSE code)
                              \o <<";">>]
        ELSE [is_first |-> FALSE, pat |-> pat, code |-> acc.code]

\* The names of parameters, by position.
ParamNames == <<"a", "b", "c", "d">>

\* What a parameter can be, but for its name.
ParamShapes ==
    { FnArg_Ident("", TypePath(<<"u8">>, <<>>)),
      FnArg_Ident("", TypePath(<<"i64">>, <<>>)),
      FnArg_Ident("", TypePath(<<"std", "string", "String">>, <<>>)),
      FnArg_Ident("", TypeReference(TypePath(<<"str">>, <<>>))),
      FnArg_Ident("", TypePath(<<"Vec">>, <<TypePath(<<"u8">>, <<>>)>>)),
      FnArg_Ident("", TypePath(<<"Vec">>,
                               <<TypeReference(TypePath(<<"str">>, <<>>))>>)),
      FnArg_Ident("", TypePath(<<"Vec">>,
                      <<TypePath(<<"Vec">>, <<TypePath(<<"u8">>, <<>>)>>)>>)),
      FnArg_Ident("", TypePath(<<"f32">>, <<>>)),
      FnArg_Ident("", TypePath(<<"TokenStream">>, <<>>)),
      FnArg_Macro(<<"$", "x", ":", "tt">>),
      FnArg_Receiver }

\* The parameter lists of n parameters.
ParamLists(n) ==
    { [i \in 1..n |->
          IF shapes[i].typed /\ shapes[i].pat = "Ident"
          THEN [shapes[i] EXCEPT !.name = ParamNames[i]]
          ELSE shapes[i]] : shapes \in [1..n -> ParamShapes] }

\* function_impl before it is given a function.
IdleFunction ==
    [pc |-> "idle", args |-> <<>>, rest |-> <<>>, acc |-> parse_args_init,
     result |-> None, out |-> Err("")]

\* ------------------------------------------------------------------------
\* Token trees
\* ------------------------------------------------------------------------
\*
\* A token stream is a sequence of token trees.  A text is a sequence of
\* pieces: a space, a line break, a delimiter, a punctuation character, a
\* quote and a backslash are pieces of one character each, an identifier is
\* one piece.

\* proc_macro2::LineColumn: lines count from 1, columns from 0.
LineColumn(line, column) == [line |-> line, column |-> column]

\* Span::Span_call_site(): the span of the attribute that invoked the macro.  The
\* attribute stands on line 1, the body of the function below it.
Span_call_site == [start |-> LineColumn(1, 0), end |-> LineColumn(1, 8)]

Ident(text, span) ==
    [kind |-> "Ident", text |-> text, start |-> span.start, end |-> span.end]

\* spacing is "Joint" when the next character of the source is punctuation
\* too (the first ':' of '::'), "Alone" otherwise.
Punct(ch, spacing, span) ==
    [kind |-> "Punct", ch |-> ch, spacing |-> spacing,
     start |-> span.start, end |-> span.end]

\* A delimited group and the stream between its delimiters.
Group(delimiter, stream, span) ==
    [kind |-> "Group", delimiter |-> delimiter, stream |-> stream,
     start |-> span.start, end |-> span.end]

\* syn::LitStr::new(value, span): a string literal holding the text value
LitStr_new(value, span) ==
    [kind |-> "Literal", value |-> value, start |-> span.start, end |-> span.end]

\* Literal::to_string: the literal as it is written in source, between
\* quotes, with '"' and '\' escaped.
RECURSIVE escape_default(_)
escape_default(value) ==
    IF value = <<>> THEN <<>>
    ELSE (IF Head(value) \in {"\"", "\\"} THEN <<"\\", Head(value)>>
          ELSE <<Head(value)>>) \o escape_default(Tail(value))

Literal_to_string(lit) == <<"\"">> \o escape_default(lit.value) \o <<"\"">>

\* The tokens the compiler hands to the macro for a source text, and the
\* tokens str::parse::<TokenStream> makes of a text: identifiers,
\* punctuation and delimited groups, each with the place it stands at.
tokenize_piece(st, c, rest) ==
    LET OpenDelimiters == {"{", "(", "["}
        CloseDelimiters == {"}", ")", "]"}
        PunctChars == {":", "!", ",", ";", "-", ">", "=", "'"}
        DelimiterOf(d) ==
            CASE d \in {"{", "}"} -> "Brace"
              [] d \in {"(", ")"} -> "Parenthesis"
              [] d \in {"[", "]"} -> "Bracket"
        here == LineColumn(st.line, st.column)
        after(n) == LineColumn(st.line, st.column + n)
        depth == Len(st.stack)
        top == st.stack[depth]
        emit(token, n) ==
            [st EXCEPT !.stack[depth].stream = Append(top.stream, token),
                       !.column = st.column + n]
    IN  CASE c = " " -> [st EXCEPT !.column = st.column + 1]
          [] c = "\n" -> [st EXCEPT !.line = st.line + 1, !.column = 0]
          [] c \in OpenDelimiters ->
                [st EXCEPT !.stack = Append(st.stack,
                                        [delimiter |-> DelimiterOf(c),
                                         start |-> here, stream |-> <<>>]),
                           !.column = st.column + 1]
          [] c \in CloseDelimiters ->
                IF depth = 1 \/ top.delimiter # DelimiterOf(c)
                THEN [st EXCEPT !.balanced = FALSE]
                ELSE [st EXCEPT
                        !.stack = Append(SubSeq(st.stack, 1, depth - 2),
                            [st.stack[depth - 1] EXCEPT !.stream =
                                Append(st.stack[depth - 1].stream,
                                       Group(top.delimiter, top.stream,
                                             [start |-> top.start,
                                              end |-> after(1)]))]),
                        !.column = st.column + 1]
          [] c \in PunctChars ->
                emit(Punct(c,
                           IF rest # <<>> /\ (Head(rest) \in PunctChars
                                              \/ (c = "'" /\ Head(rest) \notin
                                                     OpenDelimiters \cup CloseDelimiters
                                                     \cup {" ", "\n"}))
                           THEN "Joint" ELSE "Alone",
                           [start |-> here, end |-> after(1)]), 1)
          [] OTHER ->
                emit(Ident(c, [start |-> here, end |-> after(Len(c))]), Len(c))

RECURSIVE tokenize_from(_, _)
tokenize_from(st, text) ==
    IF text = <<>> \/ ~st.balanced THEN st
    ELSE tokenize_from(tokenize_piece(st, Head(text), Tail(text)), Tail(text))

tokenize(text) ==
    LET top_level == [delimiter |-> "None", stream |-> <<>>,
                      start |-> LineColumn(Span_call_site.end.line + 1, 0)]
        st == tokenize_from([stack |-> <<top_level>>, balanced |-> TRUE,
                             line |-> Span_call_site.end.line + 1, column |-> 0],
                            text)
    IN  IF st.balanced /\ Len(st.stack) = 1
        THEN Ok(st.stack[1].stream)
        ELSE Err("cannot parse string into token stream")

\* ------------------------------------------------------------------------
\* The token serializer: print_tokens
\* ------------------------------------------------------------------------

ends_with(s, c) == s # <<>> /\ s[Len(s)] = c

\* String::pop: without the last character (an empty string stays empty)
pop(s) == IF s = <<>> THEN <<>> ELSE SubSeq(s, 1, Len(s) - 1)

\* str::replace: every match, leftmost first, matches not overlapping
RECURSIVE replace(_, _, _)
replace(s, from, to) ==
    IF Len(s) < Len(from) THEN s
    ELSE IF SubSeq(s, 1, Len(from)) = from
         THEN to \o replace(SubSeq(s, Len(from) + 1, Len(s)), from, to)
         ELSE <<Head(s)>> \o replace(Tail(s), from, to)

PrintOutput(output, start_token, end_token) ==
    [output |-> output, start_token |-> start_token, end_token |-> end_token]

RECURSIVE print_tokens_internal(_)

\* One pass of the loop over the tokens.
print_tokens_token(acc, token) ==
    LET is_group == token.kind = "Group"
        content == print_tokens_internal(token.stream)
        is_brace == is_group /\ token.delimiter = "Brace"
        delimiters ==
            CASE token.delimiter = "Brace" -> <<"{", "}">>
              [] token.delimiter = "Parenthesis" -> <<"(", ")">>
              [] token.delimiter = "Bracket" -> <<"[", "]">>
              [] OTHER -> <<"", "">>
        enclose(s) ==
            IF delimiters[1] = "" THEN s
            ELSE <<delimiters[1]>> \o s \o <<delimiters[2]>>
        token_start ==
            IF is_group /\ content.start_token.some
            THEN LineColumn(content.start_token.val.line,
                            IF content.start_token.val.column > 0
                            THEN content.start_token.val.column - 1
                            ELSE token.start.column)
            ELSE token.start
        token_end ==
            IF is_group /\ content.end_token.some
            THEN LineColumn(content.end_token.val.line,
                            content.end_token.val.column + 1)
            ELSE token.end
        token_str ==
            CASE is_group -> enclose(pop(content.output))
              [] token.kind = "Ident" -> <<token.text>>
              [] token.kind = "Literal" -> Literal_to_string(token)
              [] token.kind = "Punct" -> <<token.ch>>
        add_space == ~(token.kind = "Punct" /\ token.ch = "'")
        touching ==
            /\ is_brace \/ acc.prev_token_was_brace
            /\ acc.prev_token_end.some
            /\ acc.prev_token_end.val.line = token_start.line
            /\ acc.prev_token_end.val.column >= token_start.column
            /\ ends_with(acc.output, " ")
        output == IF touching THEN pop(acc.output) ELSE acc.output
    IN  [output |-> output \o token_str \o (IF add_space THEN <<" ">> ELSE <<>>),
         first_token_start |-> IF acc.first_token_start.some
                               THEN acc.first_token_start
                               ELSE Some(token_start),
         prev_token_end |-> Some(token_end),
         prev_token_was_brace |-> is_brace]

RECURSIVE print_tokens_loop(_, _)
print_tokens_loop(acc, tokens) ==
    IF tokens = <<>> THEN acc
    ELSE print_tokens_loop(print_tokens_token(acc, Head(tokens)), Tail(tokens))

print_tokens_internal(tokens) ==
    LET acc == print_tokens_loop([output |-> <<>>, first_token_start |-> None,
                                  prev_token_end |-> None,
                                  prev_token_was_brace |-> FALSE], tokens)
    IN  PrintOutput(acc.output, acc.first_token_start, acc.prev_token_end)

\* A variant that collapses four braces to two.
print_tokens_collapse_to_double(tokens) ==
    replace(replace(replace(replace(print_tokens_internal(tokens).output,
        <<"{">>, <<"{", "{">>),
        <<"}">>, <<"}", "}">>),
        <<"{", "{", "{", "{">>, <<"{", "{">>),
        <<"}", "}", "}", "}">>, <<"}", "}">>)

print_tokens(tokens) ==
    replace(replace(replace(replace(print_tokens_internal(tokens).output,
        <<"{">>, <<"{", "{">>),
        <<"}">>, <<"}", "}">>),
        <<"{", "{", "{", "{">>, <<"{">>),
        <<"}", "}", "}", "}">>, <<"}">>)

\* ------------------------------------------------------------------------
\* The generated program formats a serialized body: format!
\* ------------------------------------------------------------------------

\* format!(template) without further arguments: "{{" and "}}" are written
\* as one brace, "{name}" is the value of name, any other brace does not
\* compile.  The result is a sequence of [lit |-> piece] and [arg |-> name].
RECURSIVE format(_)
format(template) ==
    LET n == Len(template)
        from(k) == format(SubSeq(template, k, n))
        then(item, k) == LET tail == from(k)
                         IN  IF tail.ok THEN Ok(<<item>> \o tail.val) ELSE tail
        close == find(template, <<"}">>)
    IN  IF template = <<>> THEN Ok(<<>>)
        ELSE IF template[1] = "{"
        THEN IF n >= 2 /\ template[2] = "{" THEN then([lit |-> "{"], 3)
             ELSE IF close.some
                  THEN then([arg |-> SubSeq(template, 2, close.val - 1)],
                            close.val + 1)
                  ELSE Err("invalid format string: expected a closing brace but string was terminated")
        ELSE IF template[1] = "}"
        THEN IF n >= 2 /\ template[2] = "}" THEN then([lit |-> "}"], 3)
             ELSE Err("invalid format string: unmatched closing brace found")
        ELSE then([lit |-> template[1]], 2)

\* ------------------------------------------------------------------------
\* The form expanders
\* ------------------------------------------------------------------------

GEN_MOD == CRATE

\* proc_macro2::Group::new, and a group made by quote!: a group the macro
\* makes itself has the span Span::call_site(), as every token it makes.
Group_new(delimiter, stream) == Group(delimiter, stream, Span_call_site)

\* expand!{..}: the contents of the group in the place of the three tokens.
is_expand(tokens) ==
    /\ Len(tokens) >= 3
    /\ tokens[1].kind = "Ident" /\ tokens[1].text = "expand"
    /\ tokens[2].kind = "Punct" /\ tokens[2].ch = "!"
    /\ tokens[3].kind = "Group"

RECURSIVE expand_expand_macro(_)
expand_expand_macro(tokens) ==
    IF tokens = <<>> THEN <<>>
    ELSE IF is_expand(tokens)
    THEN tokens[3].stream \o expand_expand_macro(SubSeq(tokens, 4, Len(tokens)))
    ELSE IF tokens[1].kind = "Group"
    THEN <<Group_new(tokens[1].delimiter,
                        expand_expand_macro(tokens[1].stream))>>
         \o expand_expand_macro(Tail(tokens))
    ELSE <<tokens[1]>> \o expand_expand_macro(Tail(tokens))

\* crabtime :: name ! group, six tokens
is_builtin(name, tokens) ==
    /\ Len(tokens) >= 6
    /\ tokens[1].kind = "Ident" /\ tokens[1].text = GEN_MOD
    /\ tokens[2].kind = "Punct" /\ tokens[2].ch = ":"
    /\ tokens[3].kind = "Punct" /\ tokens[3].ch = ":"
    /\ tokens[4].kind = "Ident" /\ tokens[4].text = name
    /\ tokens[5].kind = "Punct" /\ tokens[5].ch = "!"
    /\ tokens[6].kind = "Group"

\* The closure expand_output_macro hands to expand_builtin_macro:
\* crabtime::write_ln!(__output_buffer__, "content");
output_closure(inner_rewritten) ==
    <<Ident(GEN_MOD, Span_call_site), Punct(":", "Joint", Span_call_site), Punct(":", "Alone", Span_call_site),
      Ident("write_ln", Span_call_site), Punct("!", "Alone", Span_call_site),
      Group_new("Parenthesis",
          <<Ident("__output_buffer__", Span_call_site), Punct(",", "Alone", Span_call_site),
            LitStr_new(print_tokens(inner_rewritten), Span_call_site)>>),
      Punct(";", "Alone", Span_call_site)>>

\* The closure expand_quote_macro hands to expand_builtin_macro:
\* format!("content")
quote_closure(inner_rewritten) ==
    <<Ident("format", Span_call_site), Punct("!", "Alone", Span_call_site),
      Group_new("Parenthesis",
          <<LitStr_new(print_tokens(inner_rewritten), Span_call_site)>>)>>

\* f(inner_rewritten), f being one of the two closures
call(f, inner_rewritten) ==
    CASE f = "output_closure" -> output_closure(inner_rewritten)
      [] f = "quote_closure" -> quote_closure(inner_rewritten)

\* A variant that hands the interior of a form to f as it stands.
RECURSIVE expand_builtin_macro_top_down(_, _, _)
expand_builtin_macro_top_down(name, tokens, f) ==
    LET after_form == expand_builtin_macro_top_down(name, SubSeq(tokens, 7, Len(tokens)), f)
        after_token == expand_builtin_macro_top_down(name, Tail(tokens), f)
    IN  IF tokens = <<>> THEN [output |-> <<>>, calls |-> <<>>]
        ELSE IF is_builtin(name, tokens)
        THEN [output |-> call(f, tokens[6].stream) \o after_form.output,
              calls |-> <<tokens[6].stream>> \o after_form.calls]
        ELSE IF tokens[1].kind = "Group"
        THEN LET inner == expand_builtin_macro_top_down(name, tokens[1].stream, f)
             IN  [output |-> <<Group_new(tokens[1].delimiter, inner.output)>>
                             \o after_token.output,
                  calls |-> inner.calls \o after_token.calls]
        ELSE [output |-> <<tokens[1]>> \o after_token.output, calls |-> after_token.calls]

\* A variant that rebuilds every group with braces.
RECURSIVE expand_builtin_macro_braces(_, _, _)
expand_builtin_macro_braces(name, tokens, f) ==
    LET after_form == expand_builtin_macro_braces(name, SubSeq(tokens, 7, Len(tokens)), f)
        after_token == expand_builtin_macro_braces(name, Tail(tokens), f)
    IN  IF tokens = <<>> THEN [output |-> <<>>, calls |-> <<>>]
        ELSE IF is_builtin(name, tokens)
        THEN LET inner == expand_builtin_macro_braces(name, tokens[6].stream, f)
             IN  [output |-> call(f, inner.output) \o after_form.output,
                  calls |-> inner.calls \o <<inner.output>> \o after_form.calls]
        ELSE IF tokens[1].kind = "Group"
        THEN LET inner == expand_builtin_macro_braces(name, tokens[1].stream, f)
             IN  [output |-> <<Group_new("Brace", inner.output)>>
                             \o after_token.output,
                  calls |-> inner.calls \o after_token.calls]
        ELSE [output |-> <<tokens[1]>> \o after_token.output, calls |-> after_token.calls]

\* output is the stream the function returns; calls is the history of the
\* streams f was applied to, in the order of the calls.
RECURSIVE expand_builtin_macro(_, _, _)
expand_builtin_macro(name, tokens, f) ==
    LET after_form == expand_builtin_macro(name, SubSeq(tokens, 7, Len(tokens)), f)
        after_token == expand_builtin_macro(name, Tail(tokens), f)
    IN  IF tokens = <<>> THEN [output |-> <<>>, calls |-> <<>>]
        ELSE IF is_builtin(name, tokens)
        THEN LET inner == expand_builtin_macro(name, tokens[6].stream, f)
             IN  [output |-> call(f, inner.output) \o after_form.output,
                  calls |-> inner.calls \o <<inner.output>> \o after_form.calls]
        ELSE IF tokens[1].kind = "Group"
        THEN LET inner == expand_builtin_macro(name, tokens[1].stream, f)
             IN  [output |-> <<Group_new(tokens[1].delimiter, inner.output)>>
                             \o after_token.output,
                  calls |-> inner.calls \o after_token.calls]
        ELSE [output |-> <<tokens[1]>> \o after_token.output, calls |-> after_token.calls]

expand_output_macro(input) == expand_builtin_macro("output", input, "output_closure")

expand_quote_macro(input) == expand_builtin_macro("quote", input, "quote_closure")

\* ------------------------------------------------------------------------
\* Function bodies
\* ------------------------------------------------------------------------

\* crabtime::name!{ text } as it is written in a body
Form(name, text) == <<GEN_MOD, ":", ":", name, "!", "{">> \o text \o <<"}">>

\* The ways one body text is put inside another.
Enclosed(kind, text) ==
    CASE kind = "output" -> Form("output", text)
      [] kind = "quote" -> Form("quote", text)
      [] kind = "expand" -> <<"expand", "!", "{">> \o text \o <<"}">>
      [] kind = "parenthesis" -> <<"(">> \o text \o <<")">>
      [] kind = "brace" -> <<"{">> \o text \o <<"}">>
      [] kind = "spaced brace" -> <<"{", " ">> \o text \o <<" ", "}">>

\* Bodies with the forms the expanders look for, one inside another up to
\* depth, alone or between other tokens; the second leaf is a form that
\* lacks its group.
RECURSIVE FormBodies(_)
FormBodies(depth) ==
    LET leaves == {<<"x">>, <<GEN_MOD, ":", ":", "output", "!">>}
    IN  IF depth = 0 THEN leaves
        ELSE leaves \cup
             {before \o Enclosed(kind, text) \o after :
                 kind \in {"output", "quote", "expand", "parenthesis"},
                 text \in FormBodies(depth - 1),
                 before \in {<<>>, <<"a", " ">>},
                 after \in {<<>>, Form("output", <<"y">>)}}

\* Bodies with brace groups, one inside another up to depth, touching their
\* neighbours or apart from them.
RECURSIVE BraceBodies(_)
BraceBodies(depth) ==
    LET leaves == {<<>>, <<"x">>, <<"a", ":", ":", "b">>}
    IN  IF depth = 0 THEN leaves
        ELSE leaves \cup
             {before \o Enclosed(kind, text) \o after :
                 kind \in {"brace", "spaced brace", "parenthesis"},
                 text \in BraceBodies(depth - 1),
                 before \in {<<>>, <<"P">>, <<"P", " ">>},
                 after \in {<<>>, <<"q">>, <<" ", "q">>, <<"\n", "q">>}}

IdleTokens ==
    [pc |-> "idle", source |-> <<>>, input |-> <<>>,
     quote |-> [output |-> <<>>, calls |-> <<>>],
     output |-> [output |-> <<>>, calls |-> <<>>],
     expand |-> <<>>,
     text |-> <<>>, formatted |-> Ok(<<>>)]

\* ------------------------------------------------------------------------
\* State
\* ------------------------------------------------------------------------

VARIABLES
    nightly,      \* cfg!(nightly): the channel the macro crate was built on
    fs,           \* the working directories on disk
    runs,         \* invocations started in this process run
    inv,          \* per invocation: where eval_fn_impl is, and its locals
    po_pc,        \* parse_output: "start", "loop" or "done"
    po_output,    \* parse_output: its argument
    po_lines,     \* parse_output: the lines the loop has still to read
    po_acc,       \* parse_output: code and the other sinks so far
    pa,           \* function_impl and parse_args: position and locals
    ex            \* the expanders and the serializer: position and values

orch_vars == <<nightly, fs, runs, inv>>

po_vars == <<po_output, po_pc, po_lines, po_acc>>

vars == <<orch_vars, po_vars, pa, ex>>

\* ------------------------------------------------------------------------
\* The protocol parser as a machine: one line per step
\* ------------------------------------------------------------------------

ParseInit ==
    /\ po_pc = "start"
    /\ \E lines \in LineSeqs(MaxLines), final_break \in BOOLEAN :
          po_output = join_lines(lines) \o (IF final_break THEN <<"\n">> ELSE <<>>)
    /\ po_lines = <<>>
    /\ po_acc = parse_output_init
    /\ pa = IdleFunction
    /\ ex = IdleTokens
    /\ nightly = FALSE
    /\ fs = [d \in OutputDirs |-> NoDir]
    /\ runs = 0
    /\ inv = [p \in Procs |-> IdleInvocation]

\* let mut code = String::new(); output.split('\n')
ParseSplit ==
    /\ po_pc = "start"
    /\ po_lines' = split(po_output, "\n")
    /\ po_pc' = "loop"
    /\ UNCHANGED <<orch_vars, pa, ex, po_output, po_acc>>

\* One iteration of the loop.
ParseLine ==
    /\ po_pc = "loop"
    /\ po_lines # <<>>
    /\ po_acc' = parse_line(po_acc, Head(po_lines))
    /\ po_lines' = Tail(po_lines)
    /\ UNCHANGED <<orch_vars, pa, ex, po_output, po_pc>>

\* The loop ends and code is returned.
ParseReturn ==
    /\ po_pc = "loop"
    /\ po_lines = <<>>
    /\ po_pc' = "done"
    /\ UNCHANGED <<orch_vars, pa, ex, po_output, po_lines, po_acc>>

ParseNext == ParseSplit \/ ParseLine \/ ParseReturn

SpecParse == ParseInit /\ [][ParseNext]_vars

\* ------------------------------------------------------------------------
\* The orchestrator: eval_fn_impl, one step per fallible operation
\* ------------------------------------------------------------------------

Init ==
    /\ nightly \in BOOLEAN
    /\ fs = [d \in OutputDirs |-> NoDir]
    /\ runs = 0
    /\ inv = [p \in Procs |-> IdleInvocation]
    /\ po_pc = "start"
    /\ po_output = <<>>
    /\ po_lines = <<>>
    /\ po_acc = parse_output_init
    /\ pa = IdleFunction
    /\ ex = IdleTokens

\* The working directory of invocation p.
Dir(p) == inv[p].paths.output_dir

\* inv after `?` has returned an error from eval_fn_impl.
Failed(p, stage, msg) ==
    [inv EXCEPT ![p].pc = "done",
                ![p].result = [kind |-> "Err", stage |-> stage, msg |-> msg,
                               val |-> <<>>]]

\* inv after `?` has returned an error from the closure given to
\* with_output_dir.
ClosureFailed(p, msg) ==
    [inv EXCEPT ![p].pc = "remove",
                ![p].out = [kind |-> "Err", eprint |-> None, val |-> <<>>,
                            msg |-> msg]]

\* A file that exists and holds nothing.
EmptyFile == [some |-> TRUE, empty |-> TRUE]

\* What cargo needs in the directory it is run in for the build to succeed:
\* a manifest and an entry-point source that is not empty.
Buildable(dir) ==
    /\ dir.exists /\ dir.src
    /\ dir.cargo_toml.some
    /\ dir.main_rs.some /\ dir.main_rs # EmptyFile

\* let options = syn::parse::<MacroOptions>(attr)?
ParseMacroOptions(p) ==
    /\ inv[p].pc = "idle"
    /\ runs < MaxRuns
    /\ runs' = runs + 1
    /\ \E attr \in OptionInputs :
          LET parsed == MacroOptions_parse(attr)
          IN  inv' = IF parsed.ok
                     THEN [inv EXCEPT ![p].pc = "parse_item",
                                      ![p].options = parsed.val]
                     ELSE Failed(p, "config", parsed.err)
    /\ UNCHANGED <<nightly, fs, po_vars, pa, ex>>

\* let input_fn_ast = syn::parse::<syn::ItemFn>(item)?
ParseItemFn(p) ==
    /\ inv[p].pc = "parse_item"
    /\ \E item \in ItemInputs :
          inv' = IF item.parsable
                 THEN [inv EXCEPT ![p].pc = "paths_new", ![p].item = item]
                 ELSE Failed(p, "config", "expected fn")
    /\ UNCHANGED <<nightly, fs, runs, po_vars, pa, ex>>

\* Paths::new that creates the directory it resolves.
PathsNew_creating(p) ==
    /\ inv[p].pc = "paths_new"
    /\ \E call_site \in CallSites, found \in BOOLEAN :
          LET item == inv[p].item
              paths == IF nightly
                       THEN Paths_new_nightly(inv[p].options, item.ident,
                                              item.body, call_site, found)
                       ELSE Paths_new_stable(inv[p].options, item.ident,
                                             item.body)
              dir == IF nightly
                     THEN Paths_new_nightly(inv[p].options, item.ident,
                                            item.body, call_site, TRUE).val.output_dir
                     ELSE paths.val.output_dir
          IN  /\ inv' = IF paths.ok
                        THEN [inv EXCEPT
                                ![p].pc = IF paths.val.cargo_toml_path
                                          THEN "fill_from_cargo_toml"
                                          ELSE "extract_inline_attributes",
                                ![p].call_site = IF nightly THEN call_site ELSE @,
                                ![p].paths = paths.val]
                        ELSE Failed(p, "config", paths.err)
              /\ fs' = [fs EXCEPT ![dir].exists = TRUE]
    /\ UNCHANGED <<nightly, runs, po_vars, pa, ex>>

\* Paths::new that resolves to a directory of its own for every run: the
\* name is made of the body's text and of the number of the run.
PathsNew_fresh(p) ==
    /\ inv[p].pc = "paths_new"
    /\ \E call_site \in CallSites, found \in BOOLEAN :
          LET item == inv[p].item
              fresh == (item.body + runs) % 2
              paths == IF nightly
                       THEN Paths_new_nightly(inv[p].options, item.ident,
                                              fresh, call_site, found)
                       ELSE Paths_new_stable(inv[p].options, item.ident,
                                             fresh)
          IN  inv' = IF paths.ok
                     THEN [inv EXCEPT
                             ![p].pc = IF paths.val.cargo_toml_path
                                       THEN "fill_from_cargo_toml"
                                       ELSE "extract_inline_attributes",
                             ![p].call_site = IF nightly THEN call_site ELSE @,
                             ![p].paths = paths.val]
                     ELSE Failed(p, "config", paths.err)
    /\ UNCHANGED <<nightly, fs, runs, po_vars, pa, ex>>

\* let paths = Paths::new(options, name, &input_str)?
PathsNew(p) ==
    /\ inv[p].pc = "paths_new"
    /\ \E call_site \in CallSites, found \in BOOLEAN :
          LET item == inv[p].item
              paths == IF nightly
                       THEN Paths_new_nightly(inv[p].options, item.ident,
                                              item.body, call_site, found)
                       ELSE Paths_new_stable(inv[p].options, item.ident,
                                             item.body)
          IN  inv' = IF paths.ok
                     THEN [inv EXCEPT
                             ![p].pc = IF paths.val.cargo_toml_path
                                       THEN "fill_from_cargo_toml"
                                       ELSE "extract_inline_attributes",
                             ![p].call_site = IF nightly THEN call_site ELSE @,
                             ![p].paths = paths.val]
                     ELSE Failed(p, "config", paths.err)
    /\ UNCHANGED <<nightly, fs, runs, po_vars, pa, ex>>

\* if let Some(path) = &paths.cargo_toml_path { cfg.fill_from_cargo_toml(path)? }
FillFromCargoToml(p) ==
    /\ inv[p].pc = "fill_from_cargo_toml"
    /\ \E file \in EnclosingManifests :
          LET filled == fill_from_cargo_toml(inv[p].cfg, file)
          IN  inv' = IF filled.ok
                     THEN [inv EXCEPT ![p].pc = "extract_inline_attributes",
                                      ![p].manifest = Some(file),
                                      ![p].cfg = filled.val]
                     ELSE [Failed(p, "config", filled.err)
                              EXCEPT ![p].manifest = Some(file)]
    /\ UNCHANGED <<nightly, fs, runs, po_vars, pa, ex>>

\* let attributes = cfg.extract_inline_attributes(input_fn_ast.attrs)?, and
\* the entry-point source prepared from it.
ExtractInlineAttributes(p) ==
    /\ inv[p].pc = "extract_inline_attributes"
    /\ LET item == inv[p].item
           extracted == extract_inline_attributes(inv[p].cfg, item.attrs)
       IN  inv' = IF extracted.ok
                  THEN [inv EXCEPT
                          ![p].pc = "with_output_dir",
                          ![p].cfg = extracted.val.cfg,
                          ![p].attributes = extracted.val.attributes,
                          ![p].input_code =
                              Some(prepare_input_code(
                                       extracted.val.attributes, item.body,
                                       item.output,
                                       contains_dependency(extracted.val.cfg,
                                           <<"p", "r", "o", "c", "-", "m", "a",
                                             "c", "r", "o", "2">>)))]
                  ELSE Failed(p, "config", extracted.err)
    /\ UNCHANGED <<nightly, fs, runs, po_vars, pa, ex>>

\* with_output_dir that empties the whole output root before it creates
\* its directory.
WithOutputDir_clean(p) ==
    /\ inv[p].pc = "with_output_dir"
    /\ fs' = [d \in OutputDirs |->
                 IF d = Dir(p) THEN [NoDir EXCEPT !.exists = TRUE] ELSE NoDir]
    /\ inv' = [inv EXCEPT ![p].pc = "create_src_dir",
                          ![p].trace = @ \o <<"create_dir", "dir_ready">>]
    /\ UNCHANGED <<nightly, runs, po_vars, pa, ex>>

\* Paths::with_output_dir, up to the call of the closure.
WithOutputDir(p) ==
    /\ inv[p].pc = "with_output_dir"
    /\ \/ /\ fs[Dir(p)].exists
          /\ inv' = [inv EXCEPT ![p].pc = "create_src_dir",
                                ![p].trace = Append(@, "dir_ready")]
          /\ fs' = fs
       \/ /\ ~fs[Dir(p)].exists
          /\ fs' = [fs EXCEPT ![Dir(p)].exists = TRUE]
          /\ inv' = [inv EXCEPT ![p].pc = "create_src_dir",
                                ![p].trace = @ \o <<"create_dir", "dir_ready">>]
       \/ /\ ~fs[Dir(p)].exists
          /\ fs' = fs
          /\ inv' = Failed(p, "directory", "Failed to create project directory.")
    /\ UNCHANGED <<nightly, runs, po_vars, pa, ex>>

\* create_project_skeleton: the src directory.
CreateSrcDir(p) ==
    /\ inv[p].pc = "create_src_dir"
    /\ \/ /\ fs[Dir(p)].src
          /\ inv' = [inv EXCEPT ![p].pc = "write_cargo_toml",
                                ![p].was_cached = TRUE]
          /\ fs' = fs
       \/ /\ ~fs[Dir(p)].src
          /\ fs' = [fs EXCEPT ![Dir(p)].exists = TRUE, ![Dir(p)].src = TRUE]
          /\ inv' = [inv EXCEPT ![p].pc = "write_cargo_toml",
                                ![p].trace = Append(@, "create_src")]
       \/ /\ ~fs[Dir(p)].src
          /\ fs' = fs
          /\ inv' = ClosureFailed(p, "Failed to create src directory.")
    /\ UNCHANGED <<nightly, runs, po_vars, pa, ex>>

\* The write of Cargo.toml left out when the directory has a manifest.
WriteCargoToml_if_absent(p) ==
    /\ inv[p].pc = "write_cargo_toml"
    /\ \/ /\ fs[Dir(p)].exists
          /\ fs' = IF fs[Dir(p)].cargo_toml.some THEN fs
                   ELSE [fs EXCEPT ![Dir(p)].cargo_toml = Some(print(inv[p].cfg))]
          /\ inv' = [inv EXCEPT ![p].pc = "create_main_rs",
                                ![p].trace = Append(@, "write_cargo_toml")]
       \/ /\ fs' = fs
          /\ inv' = ClosureFailed(p, "Failed to write Cargo.toml.")
    /\ UNCHANGED <<nightly, runs, po_vars, pa, ex>>

\* The write of Cargo.toml with its error dropped.
WriteCargoToml_unchecked(p) ==
    /\ inv[p].pc = "write_cargo_toml"
    /\ \/ /\ fs[Dir(p)].exists
          /\ fs' = [fs EXCEPT ![Dir(p)].cargo_toml = Some(print(inv[p].cfg))]
          /\ inv' = [inv EXCEPT ![p].pc = "create_main_rs",
                                ![p].trace = Append(@, "write_cargo_toml")]
       \/ /\ fs' = fs
          /\ inv' = [inv EXCEPT ![p].pc = "create_main_rs"]
    /\ UNCHANGED <<nightly, runs, po_vars, pa, ex>>

\* create_project_skeleton: fs::write(&cargo_toml, cfg.print())
WriteCargoToml(p) ==
    /\ inv[p].pc = "write_cargo_toml"
    /\ \/ /\ fs[Dir(p)].exists
          /\ fs' = [fs EXCEPT ![Dir(p)].cargo_toml = Some(print(inv[p].cfg))]
          /\ inv' = [inv EXCEPT ![p].pc = "create_main_rs",
                                ![p].trace = Append(@, "write_cargo_toml")]
       \/ /\ fs' = fs
          /\ inv' = ClosureFailed(p, "Failed to write Cargo.toml.")
    /\ UNCHANGED <<nightly, runs, po_vars, pa, ex>>

\* create_project_skeleton: File::create(&main_rs), which empties the file.
CreateMainRs(p) ==
    /\ inv[p].pc = "create_main_rs"
    /\ \/ /\ fs[Dir(p)].src
          /\ fs' = [fs EXCEPT ![Dir(p)].main_rs = EmptyFile]
          /\ inv' = [inv EXCEPT ![p].pc = "write_main_rs",
                                ![p].trace = Append(@, "create_main_rs")]
       \/ /\ fs' = fs
          /\ inv' = ClosureFailed(p, "Failed to create main.rs")
    /\ UNCHANGED <<nightly, runs, po_vars, pa, ex>>

\* create_project_skeleton: file.write_all(main.as_bytes())
WriteMainRs(p) ==
    /\ inv[p].pc = "write_main_rs"
    /\ \/ /\ fs' = IF fs[Dir(p)].src
                   THEN [fs EXCEPT ![Dir(p)].main_rs = inv[p].input_code]
                   ELSE fs
          /\ inv' = [inv EXCEPT ![p].pc = "get_host_target",
                                ![p].trace = Append(@, "write_main_rs")]
       \/ /\ fs' = fs
          /\ inv' = ClosureFailed(p, "Failed to write main.rs")
    /\ UNCHANGED <<nightly, runs, po_vars, pa, ex>>

\* run_cargo_project: get_host_target()?
GetHostTarget(p) ==
    /\ inv[p].pc = "get_host_target"
    /\ \/ inv' = [inv EXCEPT ![p].pc = "cargo_run",
                             ![p].trace = Append(@, "rustc")]
       \/ \E msg \in {"Failed to run rustc",
                      "Could not determine host target from rustc"} :
             inv' = ClosureFailed(p, msg)
    /\ UNCHANGED <<nightly, fs, runs, po_vars, pa, ex>>

\* run_cargo_project that runs cargo again after a build failure.
CargoRun_retry(p) ==
    /\ inv[p].pc = "cargo_run"
    /\ \/ inv' = [ClosureFailed(p, "Failed to execute cargo run")
                    EXCEPT ![p].seen = Some(fs[Dir(p)])]
       \/ \E output \in ProcessOutputs :
             LET out == cargo_result(output)
             IN  /\ fs[Dir(p)].exists
                 /\ output.success => Buildable(fs[Dir(p)])
                 /\ inv' = [inv EXCEPT
                           ![p].pc = IF out.kind = "Panic" THEN "done"
                                     ELSE IF out.kind = "Err"
                                              /\ Len(inv[p].trace) < 10
                                     THEN "cargo_run"
                                     ELSE "remove",
                           ![p].seen = Some(fs[Dir(p)]),
                           ![p].output = Some(output),
                           ![p].out = out,
                           ![p].result =
                               IF out.kind = "Panic"
                               THEN [kind |-> "Panic", stage |-> "project",
                                     msg |-> "", val |-> out.val]
                               ELSE @,
                           ![p].trace = Append(@, "cargo_run")]
    /\ UNCHANGED <<nightly, fs, runs, po_vars, pa, ex>>

\* run_cargo_project: `cargo run --target <host>` in the working directory,
\* and what is made of its Output. A panic leaves with_output_dir and
\* eval_fn_impl at once.
CargoRun(p) ==
    /\ inv[p].pc = "cargo_run"
    /\ \/ inv' = [ClosureFailed(p, "Failed to execute cargo run")
                    EXCEPT ![p].seen = Some(fs[Dir(p)])]
       \/ \E output \in ProcessOutputs :
             LET out == cargo_result(output)
             IN  /\ fs[Dir(p)].exists
                 /\ output.success => Buildable(fs[Dir(p)])
                 /\ inv' = [inv EXCEPT
                           ![p].pc = IF out.kind = "Panic" THEN "done"
                                     ELSE "remove",
                           ![p].seen = Some(fs[Dir(p)]),
                           ![p].output = Some(output),
                           ![p].out = out,
                           ![p].result =
                               IF out.kind = "Panic"
                               THEN [kind |-> "Panic", stage |-> "project",
                                     msg |-> "", val |-> out.val]
                               ELSE @,
                           ![p].trace = Append(@, "cargo_run")]
    /\ UNCHANGED <<nightly, fs, runs, po_vars, pa, ex>>

\* inv after the closure has returned and with_output_dir has seen to the
\* directory: `?` on what the closure returned.
AfterClosure(p, removed) ==
    LET trace == IF removed THEN Append(inv[p].trace, "remove_dir")
                 ELSE inv[p].trace
    IN  IF inv[p].out.kind = "Err"
        THEN [inv EXCEPT ![p].pc = "done",
                         ![p].trace = trace,
                         ![p].result = [kind |-> "Err", stage |-> "project",
                                        msg |-> inv[p].out.msg, val |-> <<>>]]
        ELSE [inv EXCEPT ![p].pc = "parse_output", ![p].trace = trace]

\* The end of with_output_dir removing the directory whenever its name is
\* the content hash.
RemoveOutputDir_content_keyed(p) ==
    /\ inv[p].pc = "remove"
    /\ LET removed == ~nightly \/ ~inv[p].options.cache
                         \/ inv[p].options.content_base_name
       IN  /\ fs' = IF removed THEN [fs EXCEPT ![Dir(p)] = NoDir] ELSE fs
           /\ inv' = AfterClosure(p, removed)
    /\ UNCHANGED <<nightly, runs, po_vars, pa, ex>>

\* The end of with_output_dir removing the output root with all the
\* working directories in it.
RemoveOutputDir_root(p) ==
    /\ inv[p].pc = "remove"
    /\ LET removed == ~nightly \/ ~inv[p].options.cache
       IN  /\ fs' = IF removed THEN [d \in OutputDirs |-> NoDir] ELSE fs
           /\ inv' = AfterClosure(p, removed)
    /\ UNCHANGED <<nightly, runs, po_vars, pa, ex>>

\* The end of with_output_dir: the directory is removed on stable or when
\* cache is off, and what the closure returned is returned.
RemoveOutputDir(p) ==
    /\ inv[p].pc = "remove"
    /\ LET removed == ~nightly \/ ~inv[p].options.cache
       IN  /\ fs' = IF removed THEN [fs EXCEPT ![Dir(p)] = NoDir] ELSE fs
           /\ inv' = AfterClosure(p, removed)
    /\ UNCHANGED <<nightly, runs, po_vars, pa, ex>>

\* let output_code = parse_output(&output), and the parse of the macro's
\* code into tokens.
ParseOutputCode(p) ==
    /\ inv[p].pc = "parse_output"
    /\ LET output_code == parse_output(inv[p].out.val).code
       IN  \/ inv' = [inv EXCEPT ![p].pc = "done",
                                 ![p].result = [kind |-> "Ok", stage |-> "",
                                                msg |-> "", val |-> output_code]]
           \/ inv' = Failed(p, "expansion", "Failed to parse generated code.")
    /\ UNCHANGED <<nightly, fs, runs, po_vars, pa, ex>>

\* The compiler comes to the next invocation.
NextInvocation(p) ==
    /\ inv[p].pc = "done"
    /\ runs < MaxRuns
    /\ inv' = [inv EXCEPT ![p] = IdleInvocation]
    /\ UNCHANGED <<nightly, fs, runs, po_vars, pa, ex>>

\* A step of invocation p.
Step(p) ==
    \/ ParseMacroOptions(p)
    \/ ParseItemFn(p)
    \/ PathsNew(p)
    \/ FillFromCargoToml(p)
    \/ ExtractInlineAttributes(p)
    \/ WithOutputDir(p)
    \/ CreateSrcDir(p)
    \/ WriteCargoToml(p)
    \/ CreateMainRs(p)
    \/ WriteMainRs(p)
    \/ GetHostTarget(p)
    \/ CargoRun(p)
    \/ RemoveOutputDir(p)
    \/ ParseOutputCode(p)
    \/ NextInvocation(p)

\* Invocations one after the other.
Next == Step(1)

Spec == Init /\ [][Next]_vars

\* ------------------------------------------------------------------------
\* Two invocations of one process run, up to their build configuration
\* ------------------------------------------------------------------------

\* The steps of eval_fn_impl that resolve the working directory of
\* invocation p and read the enclosing manifest.
Resolve(p) ==
    \/ ParseMacroOptions(p)
    \/ ParseItemFn(p)
    \/ PathsNew(p)
    \/ FillFromCargoToml(p)

\* Invocation p has left the steps of Resolve.
Resolved(p) == inv[p].pc \in {"extract_inline_attributes", "done"}

\* The second invocation is expanded after the first.
ResolveNext ==
    \/ Resolve(1)
    \/ Resolved(1) /\ Resolve(2)

SpecResolve == Init /\ [][ResolveNext]_vars

\* ------------------------------------------------------------------------
\* Two invocations expanded concurrently (two compiler processes sharing
\* the output root), from with_output_dir on
\* ------------------------------------------------------------------------

\* eval_fn_impl up to the call of with_output_dir, when nothing fails: the
\* locals of an invocation with the given attribute arguments and item,
\* under the given enclosing manifest.
ConfiguredInvocation(is_nightly, attr, item, file) ==
    LET options == MacroOptions_parse(attr).val
        paths == IF is_nightly
                 THEN Paths_new_nightly(options, item.ident, item.body,
                                        "src/lib", TRUE).val
                 ELSE Paths_new_stable(options, item.ident, item.body).val
        cfg == IF paths.cargo_toml_path
               THEN fill_from_cargo_toml(CargoConfig_default, file).val
               ELSE CargoConfig_default
        extracted == extract_inline_attributes(cfg, item.attrs).val
    IN  [IdleInvocation EXCEPT
            !.pc = "with_output_dir",
            !.options = options,
            !.item = item,
            !.call_site = IF is_nightly THEN "src/lib" ELSE "",
            !.paths = paths,
            !.manifest = IF paths.cargo_toml_path THEN Some(file) ELSE None,
            !.cfg = extracted.cfg,
            !.attributes = extracted.attributes,
            !.input_code =
                Some(prepare_input_code(
                         extracted.attributes, item.body, item.output,
                         contains_dependency(extracted.cfg,
                             <<"p", "r", "o", "c", "-", "m", "a",
                               "c", "r", "o", "2">>)))]

\* The invocations that meet, as attribute arguments, inner attributes and
\* body: one body with and without inline attributes, keyed by location
\* and cached; the same body and another one, keyed by content and not
\* cached.
ConcurrentInputs ==
    { << <<>>, <<>>, 0 >>,
      << <<>>,
         <<Attr("edition", Some(<<"2", "0", "2", "1">>)),
           Attr("allow", Some(<<"u">>))>>,
         0 >>,
      << <<Opt("cache", TRUE, "false"), Opt("content_base_name", TRUE, "true")>>,
         <<>>, 0 >>,
      << <<Opt("cache", TRUE, "false"), Opt("content_base_name", TRUE, "true")>>,
         <<>>, 1 >> }

ConcurrentInvocations(is_nightly) ==
    { ConfiguredInvocation(is_nightly, in[1],
          [parsable |-> TRUE, ident |-> "gen", attrs |-> in[2], body |-> in[3],
           output |-> "()"],
          [readable |-> TRUE, parsable |-> TRUE, build_dependencies |-> <<>>,
           edition |-> None]) : in \in ConcurrentInputs }

\* Both invocations have their build configuration and are about to call
\* with_output_dir.
ConcurrentInit ==
    /\ nightly \in BOOLEAN
    /\ fs = [d \in OutputDirs |-> NoDir]
    /\ runs = 2
    /\ inv \in [Procs -> ConcurrentInvocations(nightly)]
    /\ po_pc = "start"
    /\ po_output = <<>>
    /\ po_lines = <<>>
    /\ po_acc = parse_output_init
    /\ pa = IdleFunction
    /\ ex = IdleTokens

\* A step of invocation p in its working directory.
DirectoryStep(p) ==
    \/ WithOutputDir(p)
    \/ CreateSrcDir(p)
    \/ WriteCargoToml(p)
    \/ CreateMainRs(p)
    \/ WriteMainRs(p)
    \/ GetHostTarget(p)
    \/ CargoRun(p)
    \/ RemoveOutputDir(p)
    \/ ParseOutputCode(p)

\* Any interleaving of the two.
ConcurrentNext == \E p \in Procs : DirectoryStep(p)

SpecConcurrent == ConcurrentInit /\ [][ConcurrentNext]_vars

\* ------------------------------------------------------------------------
\* function_impl and parse_args as a machine: one argument per step
\* ------------------------------------------------------------------------

ArgsInit ==
    /\ \E n \in 0..MaxParams, args \in ParamLists(MaxParams) :
          pa = [IdleFunction EXCEPT !.pc = "start", !.args = SubSeq(args, 1, n)]
    /\ nightly = FALSE
    /\ fs = [d \in OutputDirs |-> NoDir]
    /\ runs = 0
    /\ inv = [p \in Procs |-> IdleInvocation]
    /\ po_pc = "start"
    /\ po_output = <<>>
    /\ po_lines = <<>>
    /\ po_acc = parse_output_init
    /\ ex = IdleTokens

\* What parse_args returns, and where function_impl goes on.
Parsed(args, code) ==
    [pa EXCEPT !.pc = "parsed", !.result = Some([args |-> args, code |-> code])]

\* let Some(arg) = args.first() else { return Some(..) }
ParseArgsFirst ==
    /\ pa.pc = "start"
    /\ pa' = IF pa.args = <<>>
             THEN Parsed(Args_Pattern(<<>>), <<>>)
             ELSE [pa EXCEPT !.pc = "specialized"]
    /\ UNCHANGED <<orch_vars, po_vars, ex>>

\* parse_args_for_pattern(arg).or_else(|| parse_args_for_token_stream(arg))
ParseArgsSpecialized ==
    /\ pa.pc = "specialized"
    /\ LET arg == Head(pa.args)
           for_pattern == parse_args_for_pattern(arg)
           specialized == IF for_pattern.some THEN for_pattern
                          ELSE parse_args_for_token_stream(arg)
       IN  pa' = IF specialized.some
                 THEN Parsed(specialized.val, <<>>)
                 ELSE [pa EXCEPT !.pc = "loop", !.rest = pa.args,
                                 !.acc = parse_args_init]
    /\ UNCHANGED <<orch_vars, po_vars, ex>>

\* for arg in args { .. }: one iteration
ParseArgsLoop ==
    /\ pa.pc = "loop"
    /\ pa.rest # <<>>
    /\ pa' = [pa EXCEPT !.acc = parse_args_arg(pa.acc, Head(pa.rest)),
                        !.rest = Tail(pa.rest)]
    /\ UNCHANGED <<orch_vars, po_vars, ex>>

\* pat = quote! {#pat $(,)?}; Some((Args::Pattern { str: pat }, code))
ParseArgsReturn ==
    /\ pa.pc = "loop"
    /\ pa.rest = <<>>
    /\ pa' = Parsed(Args_Pattern(pa.acc.pat \o <<"$", "(", ",", ")", "?">>),
                    pa.acc.code)
    /\ UNCHANGED <<orch_vars, po_vars, ex>>

\* let (args, args_code) = parse_args(args_ast).context(|| error!(WRONG_ARGS))?
\* and the pattern and the setup of the macro.
FunctionImpl ==
    /\ pa.pc = "parsed"
    /\ pa' = [pa EXCEPT
                !.pc = "done",
                !.out = IF pa.result.some
                        THEN Ok([args_pattern |-> Args_pattern(pa.result.val.args),
                                 args_setup |-> Args_setup(pa.result.val.args),
                                 args_code |-> pa.result.val.code])
                        ELSE Err(WRONG_ARGS)]
    /\ UNCHANGED <<orch_vars, po_vars, ex>>

ArgsNext ==
    \/ ParseArgsFirst
    \/ ParseArgsSpecialized
    \/ ParseArgsLoop
    \/ ParseArgsReturn
    \/ FunctionImpl

SpecArgs == ArgsInit /\ [][ArgsNext]_vars

\* ------------------------------------------------------------------------
\* The expanders as a machine: one pass per step
\* ------------------------------------------------------------------------

Elsewhere ==
    /\ nightly = FALSE
    /\ fs = [d \in OutputDirs |-> NoDir]
    /\ runs = 0
    /\ inv = [p \in Procs |-> IdleInvocation]
    /\ po_pc = "start"
    /\ po_output = <<>>
    /\ po_lines = <<>>
    /\ po_acc = parse_output_init
    /\ pa = IdleFunction

\* quote!{ #(#body_ast)* }: the statements of the function body
ExpandInit ==
    /\ \E source \in FormBodies(MaxDepth) :
          ex = [IdleTokens EXCEPT !.pc = "body", !.source = source,
                                  !.input = tokenize(source).val]
    /\ Elsewhere

\* eval_fn_impl: expand_quote_macro(..), the inner call
ExpandQuoteMacro ==
    /\ ex.pc = "body"
    /\ ex' = [ex EXCEPT !.pc = "quote", !.quote = expand_quote_macro(ex.input)]
    /\ UNCHANGED <<orch_vars, po_vars, pa>>

\* eval_fn_impl: expand_output_macro(..) of what expand_quote_macro returned
ExpandOutputMacro ==
    /\ ex.pc = "quote"
    /\ ex' = [ex EXCEPT !.pc = "output",
                        !.output = expand_output_macro(ex.quote.output)]
    /\ UNCHANGED <<orch_vars, po_vars, pa>>

\* function_impl: expand_expand_macro(..)
ExpandExpandMacro ==
    /\ ex.pc = "body"
    /\ ex' = [ex EXCEPT !.pc = "expand", !.expand = expand_expand_macro(ex.input)]
    /\ UNCHANGED <<orch_vars, po_vars, pa>>

ExpandNext == ExpandQuoteMacro \/ ExpandOutputMacro \/ ExpandExpandMacro

SpecExpand == ExpandInit /\ [][ExpandNext]_vars

\* ------------------------------------------------------------------------
\* The serializer as a machine: print, then format
\* ------------------------------------------------------------------------

PrintInit ==
    /\ \E source \in BraceBodies(MaxNesting) :
          ex = [IdleTokens EXCEPT !.pc = "body", !.source = source,
                                  !.input = tokenize(source).val]
    /\ Elsewhere

\* the closures: print_tokens(&inner_rewritten)
PrintTokens ==
    /\ ex.pc = "body"
    /\ ex' = [ex EXCEPT !.pc = "printed", !.text = print_tokens(ex.input)]
    /\ UNCHANGED <<orch_vars, po_vars, pa>>

\* write_ln!: format!(..) of the literal, in the generated program
Format ==
    /\ ex.pc = "printed"
    /\ ex' = [ex EXCEPT !.pc = "formatted", !.formatted = format(ex.text)]
    /\ UNCHANGED <<orch_vars, po_vars, pa>>

PrintNext == PrintTokens \/ Format

SpecPrint == PrintInit /\ [][PrintNext]_vars

\* ------------------------------------------------------------------------
\* Properties of the protocol parser (checked under SpecParse)
\* ------------------------------------------------------------------------

\* The lines of the argument of parse_output.
AllLines == split(po_output, "\n")

\* The lines the loop has read so far.
ReadLines == SubSeq(AllLines, 1, Len(AllLines) - Len(po_lines))

\* The line the next iteration reads.
NextLine == Head(po_lines)

RECURSIVE Concat(_)
\* The texts of a sequence, one after the other.
Concat(texts) ==
    IF texts = <<>> THEN <<>> ELSE Head(texts) \o Concat(Tail(texts))

\* The text after the first n characters.
Drop(s, n) == SubSeq(s, n + 1, Len(s))

\* The trimmed line starts with the marker.
Marked(line, marker) == starts_with(trim(line), marker)

IsOutputLine(line) == Marked(line, OUTPUT_PREFIX)

IsWarningLine(line) == ~IsOutputLine(line) /\ Marked(line, WARNING_PREFIX)

IsErrorLine(line) ==
    ~IsOutputLine(line) /\ ~IsWarningLine(line) /\ Marked(line, ERROR_PREFIX)

IsBlankLine(line) == \A i \in 1..Len(line) : is_whitespace(line[i])

IsEchoLine(line) ==
    /\ ~Marked(line, OUTPUT_PREFIX)
    /\ ~Marked(line, WARNING_PREFIX)
    /\ ~Marked(line, ERROR_PREFIX)
    /\ ~IsBlankLine(line)

\* The remainders of the selected lines after a marker of n characters.
Remainders(lines, Test(_), n) ==
    LET chosen == SelectSeq(lines, Test)
    IN  [i \in 1..Len(chosen) |-> Drop(trim(chosen[i]), n)]

\* The generated text the claim describes: for the lines whose trimmed form
\* starts with the generated-code marker, in order, the remainder and a line
\* break.
ExpectedCode(lines) ==
    LET rest == Remainders(lines, IsOutputLine, Len(OUTPUT_PREFIX))
    IN  Concat([i \in 1..Len(rest) |-> rest[i] \o <<"\n">>])

\* The number of line breaks of a text.
LineBreaks(s) == Cardinality({i \in 1..Len(s) : s[i] = "\n"})

\* C7: when parse_output returns, the returned text is the concatenation, in
\* line order, of remainder-after-the-marker plus a line break for exactly
\* the lines whose trimmed form starts with the generated-code marker; no
\* other line contributes.
C7_GeneratedCode ==
    po_pc = "done" => po_acc.code = ExpectedCode(AllLines)

\* C7 witness: a returned parse of an indented generated-code line next to a
\* line of another kind.
C7_Witness ==
    /\ po_pc = "done"
    /\ Len(AllLines) = 2
    /\ IsOutputLine(AllLines[2]) /\ Head(AllLines[2]) = " "
    /\ IsWarningLine(AllLines[1])
    /\ po_acc.code # <<>>

\* C8: every line read has gone to exactly one sink (or to none when it is
\* blank): the warnings and errors are the remainders of the warning- and
\* error-marked lines, in order, the echoed lines are the other non-blank
\* lines as read (untrimmed), and the sinks together hold one entry per
\* non-blank line read.
C8_OneSinkPerLine ==
    po_pc \in {"loop", "done"} =>
        /\ po_acc.warnings =
              Remainders(ReadLines, IsWarningLine, Len(WARNING_PREFIX))
        /\ po_acc.errors =
              Remainders(ReadLines, IsErrorLine, Len(ERROR_PREFIX))
        /\ po_acc.echoed = SelectSeq(ReadLines, IsEchoLine)
        /\ LineBreaks(po_acc.code) + Len(po_acc.warnings)
              + Len(po_acc.errors) + Len(po_acc.echoed)
              + Len(SelectSeq(ReadLines, IsBlankLine))
           = Len(ReadLines)

\* C8 witness: a returned parse of a warning line and an indented
\* unprefixed line, echoed with its indentation.
C8_Witness ==
    /\ po_pc = "done"
    /\ Len(AllLines) = 2
    /\ IsWarningLine(AllLines[1])
    /\ IsEchoLine(AllLines[2]) /\ Head(AllLines[2]) = " "
    /\ Len(po_acc.warnings) = 1
    /\ po_acc.echoed = <<AllLines[2]>>

\* The line is <OUTPUT marker><one space><text>.
IsMarkerSpaceText(line) == starts_with(line, OUTPUT_PREFIX \o <<" ">>)

\* The <text> of such a line.
PayloadText(line) == Drop(line, Len(OUTPUT_PREFIX) + 1)

\* C9 as stated: a line <OUTPUT marker><space><text> appends exactly <text>
\* (and the line break) to the generated source.
C9_Original ==
    [][(po_pc = "loop" /\ po_lines # <<>> /\ IsMarkerSpaceText(NextLine))
         => po_acc'.code = po_acc.code \o PayloadText(NextLine) \o <<"\n">>]_vars

\* C9 amended: a line <OUTPUT marker><space><text> appends the separating
\* space followed by <text> without its trailing whitespace (and the line
\* break): the marker is not included, the separating space is.
C9_PayloadKeepsSpace ==
    [][(po_pc = "loop" /\ po_lines # <<>> /\ IsMarkerSpaceText(NextLine))
         => po_acc'.code =
              po_acc.code \o trim_end(<<" ">> \o PayloadText(NextLine))
                          \o <<"\n">>]_vars

\* C9 witness: the parse of the single line <OUTPUT marker><space>a has
\* returned the space and the payload.
C9_Witness ==
    /\ po_pc = "done"
    /\ po_output = OUTPUT_PREFIX \o <<" ", "a">>
    /\ po_acc.code = <<" ", "a", "\n">>

\* The line begins with one of the three markers followed by a space.
BeginsWithMarkerAndSpace(line) ==
    \E marker \in {OUTPUT_PREFIX, WARNING_PREFIX, ERROR_PREFIX} :
        starts_with(line, marker \o <<" ">>)

\* The step took its line as a generated-code, warning or error line.
Recognized ==
    \/ po_acc'.code # po_acc.code
    \/ po_acc'.warnings # po_acc.warnings
    \/ po_acc'.errors # po_acc.errors

\* C10 as stated: a line is recognized only if it begins with a marker
\* followed by a space; any other non-blank line is echoed as unprefixed.
C10_Original ==
    [][(po_pc = "loop" /\ po_lines # <<>>
          /\ ~BeginsWithMarkerAndSpace(NextLine))
         => (~Recognized /\ (~IsBlankLine(NextLine)
                               => po_acc'.echoed = Append(po_acc.echoed, NextLine)))]_vars

\* C10 amended: a line is recognized exactly when its whitespace-trimmed
\* form starts with one of the markers, case-sensitively; no separating
\* space is needed, so <marker>x and the bare marker are recognized, and a
\* marker in another case is not and is echoed.
C10_MarkerAloneRecognized ==
    [][(po_pc = "loop" /\ po_lines # <<>>)
         => /\ Recognized <=>
                 \E marker \in {OUTPUT_PREFIX, WARNING_PREFIX, ERROR_PREFIX} :
                     Marked(NextLine, marker)
            /\ IsOutputLine(NextLine) =>
                  po_acc'.code = po_acc.code
                     \o Drop(trim(NextLine), Len(OUTPUT_PREFIX)) \o <<"\n">>
            /\ (~Recognized /\ ~IsBlankLine(NextLine)) =>
                  po_acc'.echoed = Append(po_acc.echoed, NextLine)]_vars

\* C10 witness: the parse of the single line <OUTPUT marker>x has returned x
\* as generated code and echoed nothing.
C10_Witness ==
    /\ po_pc = "done"
    /\ po_output = OUTPUT_PREFIX \o <<"x">>
    /\ po_acc.code = <<"x", "\n">>
    /\ po_acc.echoed = <<>>

\* ------------------------------------------------------------------------
\* Properties of the orchestrator (checked under Spec)
\* ------------------------------------------------------------------------

\* The effects of an invocation in the order eval_fn_impl can have them.
StepOrder ==
    <<"create_dir", "dir_ready", "create_src", "write_cargo_toml",
      "create_main_rs", "write_main_rs", "rustc", "cargo_run", "remove_dir">>

RECURSIVE IsSubsequence(_, _)
\* s is t with some of its entries left out.
IsSubsequence(s, t) ==
    IF s = <<>> THEN TRUE
    ELSE IF t = <<>> THEN FALSE
    ELSE IF Head(s) = Head(t) THEN IsSubsequence(Tail(s), Tail(t))
    ELSE IsSubsequence(s, Tail(t))

\* The effects invocation p has had.
Events(p) == {inv[p].trace[i] : i \in 1..Len(inv[p].trace)}

\* How often invocation p has had the effect.
Count(trace, event) == Cardinality({i \in 1..Len(trace) : trace[i] = event})

\* The errors of creating the directory and of writing the two files.
SkeletonErrors ==
    {"Failed to create project directory.", "Failed to create src directory.",
     "Failed to write Cargo.toml.", "Failed to create main.rs",
     "Failed to write main.rs"}

\* The error invocation p has met, if any ("" otherwise).
ErrorOf(p) ==
    IF inv[p].result.kind = "Err" THEN inv[p].result.msg
    ELSE IF inv[p].out.kind = "Err" THEN inv[p].out.msg
    ELSE ""

\* C1: the steps of an invocation happen in the order directory ready,
\* manifest written, main.rs written, toolchain invoked, terminal outcome,
\* each at most once; cargo runs only on the manifest and the source this
\* invocation wrote, and never after the directory or a file could not be
\* written; a success or a runtime failure comes only after cargo has run.
C1_StepOrder ==
    \A p \in Procs :
        /\ IsSubsequence(inv[p].trace, StepOrder)
        /\ "write_cargo_toml" \in Events(p) => "dir_ready" \in Events(p)
        /\ "write_main_rs" \in Events(p) => "write_cargo_toml" \in Events(p)
        /\ "cargo_run" \in Events(p) =>
              {"dir_ready", "write_cargo_toml", "write_main_rs"} \subseteq Events(p)
        /\ inv[p].pc = "cargo_run" =>
              /\ fs[Dir(p)].exists
              /\ fs[Dir(p)].cargo_toml = Some(print(inv[p].cfg))
              /\ fs[Dir(p)].main_rs = inv[p].input_code
        /\ ErrorOf(p) \in SkeletonErrors => "cargo_run" \notin Events(p)
        /\ (inv[p].result.kind \in {"Ok", "Panic"} \/ inv[p].out.kind = "Ok")
              => "cargo_run" \in Events(p)

\* C1 witness: an invocation has ended in success after creating the
\* directory, writing both files, running cargo and removing the directory.
C1_Witness ==
    \E p \in Procs :
        /\ inv[p].pc = "done"
        /\ inv[p].result.kind = "Ok"
        /\ inv[p].trace = StepOrder

\* C2 as stated: when the directory is not to be kept (stable, or cache
\* off), it no longer exists after a run whose build-and-run step ended in
\* success, in a build failure or in a runtime failure.
C2_Original ==
    \A p \in Procs :
        (/\ inv[p].pc = "done"
         /\ "cargo_run" \in Events(p)
         /\ (~nightly \/ ~inv[p].options.cache))
        => ~fs[Dir(p)].exists

\* The directory of invocation p has the content hash for its name.
ContentKeyed(p) == ~nightly \/ inv[p].options.content_base_name

IsUtf8(bytes) == \A i \in 1..Len(bytes) : bytes[i] # InvalidByte

RECURSIVE Decoded(_)
\* The stream as text, U+FFFD standing for each invalid byte.
Decoded(bytes) ==
    IF bytes = <<>> THEN <<>>
    ELSE <<IF IsUtf8(<<Head(bytes)>>) THEN Head(bytes) ELSE REPLACEMENT_CHARACTER>>
         \o Decoded(Tail(bytes))

\* i is where the first occurrence of pat in s starts.
IsFirstOccurrence(s, pat, i) ==
    /\ starts_with(Drop(s, i - 1), pat)
    /\ \A j \in 1..(i - 1) : ~starts_with(Drop(s, j - 1), pat)

\* What C4 says of a failed exit: one failure and no stdout; a runtime
\* failure with stderr from the first panic marker on when stderr holds the
\* marker, the build error otherwise.
FailureAsClaimed(output, out) ==
    LET stderr == Decoded(output.stderr)
    IN  /\ out.kind \in {"Err", "Panic"}
        /\ out.kind = "Panic" <=>
              \E i \in 1..Len(stderr) : IsFirstOccurrence(stderr, PANIC_MARKER, i)
        /\ out.kind = "Panic" =>
              \E i \in 1..Len(stderr) :
                  /\ IsFirstOccurrence(stderr, PANIC_MARKER, i)
                  /\ out.val = Drop(stderr, i - 1)
        /\ out.kind = "Err" =>
              /\ out.msg = "Compilation of the generated code failed."
              /\ out.val = <<>>

\* C4 as stated: the build-and-run step returns the subprocess's stdout,
\* complete and unmodified, exactly when the subprocess exits successfully,
\* and fails as described otherwise.
C4_Original ==
    \A p \in Procs :
        inv[p].output.some =>
            LET output == inv[p].output.val
                out == inv[p].out
            IN  /\ out.kind = "Ok" <=> output.success
                /\ out.kind = "Ok" => out.val = output.stdout
                /\ ~output.success => FailureAsClaimed(output, out)

\* C4 amended: the build-and-run step returns stdout exactly when the
\* subprocess exits successfully, and what it returns is stdout decoded as
\* UTF-8 with U+FFFD for every invalid byte: complete, and unmodified when
\* stdout is valid UTF-8. A failed exit fails as described, on stderr
\* decoded the same way, and the invocation ends with that one failure.
C4_StdoutDecodedOnSuccess ==
    \A p \in Procs :
        inv[p].output.some =>
            LET output == inv[p].output.val
                out == inv[p].out
            IN  /\ out.kind = "Ok" <=> output.success
                /\ out.kind = "Ok" =>
                      /\ out.val = Decoded(output.stdout)
                      /\ IsUtf8(output.stdout) => out.val = output.stdout
                /\ ~output.success =>
                      /\ FailureAsClaimed(output, out)
                      /\ inv[p].pc = "done" =>
                            /\ inv[p].result.kind = out.kind
                            /\ inv[p].result.val = out.val
                            /\ inv[p].result.msg = out.msg

\* C4 witness: a successful exit whose stdout holds an invalid byte has been
\* returned with U+FFFD in its place.
C4_Witness ==
    \E p \in Procs :
        /\ inv[p].output.some
        /\ inv[p].output.val.success
        /\ ~IsUtf8(inv[p].output.val.stdout)
        /\ inv[p].out.kind = "Ok"
        /\ \E i \in 1..Len(inv[p].out.val) :
              inv[p].out.val[i] = REPLACEMENT_CHARACTER

\* Invocation p has met a failure.
HasFailed(p) ==
    \/ inv[p].out.kind = "Err"
    \/ inv[p].result.kind \in {"Err", "Panic"}

\* The effects that write to the directory or build.
WriteAndBuildEvents ==
    {"create_dir", "create_src", "write_cargo_toml", "create_main_rs",
     "write_main_rs", "rustc", "cargo_run"}

\* C5: an invocation runs cargo at most once, and once it has met a failure
\* of any kind it neither writes to its directory nor builds again: the
\* directory is at most removed.
C5_NoRetry ==
    [][\A p \in Procs :
          /\ Count(inv'[p].trace, "cargo_run") <= 1
          /\ HasFailed(p) =>
                /\ \A e \in WriteAndBuildEvents :
                      inv'[p].trace # Append(inv[p].trace, e)
                /\ Dir(p) \in OutputDirs =>
                      fs'[Dir(p)] \in {fs[Dir(p)], NoDir}]_vars

\* C5 witness: an invocation has ended with the build error after one run
\* of cargo.
C5_Witness ==
    \E p \in Procs :
        /\ inv[p].pc = "done"
        /\ inv[p].result.kind = "Err"
        /\ inv[p].result.msg = "Compilation of the generated code failed."
        /\ Count(inv[p].trace, "cargo_run") = 1

\* Where eval_fn_impl is while it reads its configuration.
ConfigStages ==
    {"idle", "parse_item", "paths_new", "fill_from_cargo_toml",
     "extract_inline_attributes"}

\* The configuration errors: a malformed or unknown option, an item that is
\* no function, no manifest, a manifest that cannot be read or parsed, an
\* attribute that does not parse, a dependency without `=`.
ConfigErrors ==
    {"expected =", "expected boolean literal", "unknown attribute",
     "expected fn", "No 'Cargo.toml' files found in parent directories",
     "io error", "toml error", "Failed to parse attributes",
     "Incorrect dependency"}

\* C6: an invocation that ends with a configuration error has created no
\* directory, written no file and invoked no toolchain: the disk is as it
\* was when the invocation began.
C6_ConfigErrorBeforeBuild ==
    [][\A p \in Procs :
          /\ (inv[p].pc \in ConfigStages /\ inv'[p] # inv[p]) =>
                /\ fs' = fs
                /\ inv'[p].trace = <<>>
                /\ inv'[p].output = None
          /\ (inv'[p] # inv[p] /\ inv'[p].result.kind = "Err"
                /\ inv'[p].result.msg \in ConfigErrors) =>
                /\ inv[p].pc \in ConfigStages
                /\ inv'[p].pc = "done"]_vars

\* C6 witness: a second invocation has ended with the error of a dependency
\* attribute without `=`, the directory of the first still on disk.
C6_Witness ==
    \E p \in Procs :
        /\ inv[p].pc = "done"
        /\ inv[p].result.msg = "Incorrect dependency"
        /\ inv[p].trace = <<>>
        /\ runs = 2
        /\ \E d \in OutputDirs : fs[d].exists

\* ------------------------------------------------------------------------
\* Properties of the build configuration (checked under Spec)
\* ------------------------------------------------------------------------

\* The attributes of invocation p whose path is the given one, in
\* declaration order.
InlineOf(p, path) ==
    SelectSeq(inv[p].item.attrs, LAMBDA a : a.path = path)

\* The text given to an inline attribute, as it is kept: without spaces.
InlineValue(attr) == remove_spaces(attr.tokens.val)

\* The inline dependencies of invocation p, in declaration order.
InlineDependencies(p) ==
    LET D == InlineOf(p, "dependency")
    IN  [i \in 1..Len(D) |->
            LET kv == split_once(InlineValue(D[i]), "=")
            IN  [label |-> kv.val[1], tokens_str |-> kv.val[2],
                 token_range |-> D[i].tokens.val # <<>>]]

\* Invocation p has read an enclosing manifest.
Inherits(p) ==
    /\ inv[p].manifest.some
    /\ inv[p].manifest.val.readable /\ inv[p].manifest.val.parsable

\* The dependencies invocation p inherits from the enclosing manifest.
InheritedDependencies(p) ==
    IF Inherits(p)
    THEN LET bd == inv[p].manifest.val.build_dependencies
         IN  [i \in 1..Len(bd) |->
                 [label |-> bd[i][1], tokens_str |-> bd[i][2],
                  token_range |-> FALSE]]
    ELSE <<>>

\* Invocation p has its build configuration: the inline attributes have
\* been extracted.
Configured(p) == inv[p].input_code.some

\* C11: the build configuration is the inherited manifest merged with the
\* inline overrides. Its dependencies are the inherited ones followed by
\* the inline ones in declaration order, with nothing removed when labels
\* repeat; its edition is the (last) inline edition when there is one, and
\* otherwise the edition of the inherited manifest (2024 when that manifest
\* names none); and this configuration is what is written as the manifest
\* of the generated project.
C11_MergedConfig ==
    \A p \in Procs :
        Configured(p) =>
            /\ inv[p].cfg.dependencies
                  = InheritedDependencies(p) \o InlineDependencies(p)
            /\ LET E == InlineOf(p, "edition")
               IN  inv[p].cfg.edition
                      = IF E # <<>> THEN Some(InlineValue(E[Len(E)]))
                        ELSE IF ~Inherits(p) THEN None
                        ELSE IF inv[p].manifest.val.edition.some
                        THEN inv[p].manifest.val.edition
                        ELSE Some(<<"2", "0", "2", "4">>)
            /\ inv[p].pc \in {"create_main_rs", "write_main_rs",
                              "get_host_target", "cargo_run"}
                  => fs[Dir(p)].cargo_toml = Some(print(inv[p].cfg))

\* An inline dependency with the label of an inherited one: both are in
\* the manifest the build is about to use, the inherited one first.
C11_Witness ==
    \E p \in Procs :
        /\ inv[p].pc = "cargo_run"
        /\ Inherits(p)
        /\ Len(InheritedDependencies(p)) = 1
        /\ Len(InlineDependencies(p)) = 2
        /\ InlineDependencies(p)[1].label = InheritedDependencies(p)[1].label
        /\ Len(fs[Dir(p)].cargo_toml.val.dependencies) = 3
        /\ fs[Dir(p)].cargo_toml.val.dependencies
              = << <<"b", " ", "=", " ", "1">>, <<"b", " ", "=", " ", "2">>,
                   <<"a", " ", "=", " ", "1">> >>
        /\ fs[Dir(p)].cargo_toml.val.edition = <<"2", "0", "1", "8">>

\* The configuration attributes of the crate documentation.
ConfigurationAttributes == {"edition", "resolver", "dependency"}

\* C12 as stated: no edition, resolver or dependency attribute is forwarded
\* to the generated program, and the manifest's edition and resolver are
\* the inline values, 2024 and 3 when there is none and nothing inherited.
C12_Original ==
    \A p \in Procs :
        Configured(p) =>
            /\ \A i \in 1..Len(inv[p].attributes) :
                  inv[p].attributes[i].path \notin ConfigurationAttributes
            /\ LET E == InlineOf(p, "edition")
                   R == InlineOf(p, "resolver")
                   manifest == print(inv[p].cfg)
               IN  /\ E # <<>> => manifest.edition = InlineValue(E[Len(E)])
                   /\ R # <<>> => manifest.resolver = InlineValue(R[Len(R)])
                   /\ E = <<>> /\ ~Inherits(p)
                         => manifest.edition = <<"2", "0", "2", "4">>
                   /\ R = <<>> => manifest.resolver = <<"3">>

\* ------------------------------------------------------------------------
\* Properties of the addressing (checked under SpecResolve)
\* ------------------------------------------------------------------------

\* Paths::new has given invocation p its working directory.
HasPaths(p) == Dir(p) \in OutputDirs

C14_Original ==
    \A p, q \in Procs :
        /\ p # q
        /\ inv[p].item.parsable /\ inv[q].item.parsable
        /\ inv[p].item.body = inv[q].item.body
        /\ inv[p].options.cache /\ inv[q].options.cache
        => ~(inv[p].manifest.some /\ inv[q].manifest.some)

\* C15 as stated: two invocations with distinct body texts never resolve to
\* the same working directory, whatever the addressing mode.
C15_Original ==
    \A p, q \in Procs :
        /\ HasPaths(p) /\ HasPaths(q)
        /\ inv[p].item.body # inv[q].item.body
        => Dir(p) # Dir(q)

\* ------------------------------------------------------------------------
\* Properties of concurrent invocations (checked under SpecConcurrent)
\* ------------------------------------------------------------------------

\* The other invocation.
Other(p) == CHOOSE q \in Procs : q # p

\* What the build step of invocation p found in its working directory is
\* the manifest and the source that p wrote.
SawOwnFiles(p) ==
    LET dir == inv[p].seen.val
    IN  /\ dir.exists /\ dir.src
        /\ dir.cargo_toml = Some(print(inv[p].cfg))
        /\ dir.main_rs = inv[p].input_code

\* The result of an invocation is the one its own build gives: the parsed
\* stdout of a successful exit, and an error or a panic of a failed one.
OutcomeOfOwnBuild(invocation) ==
    invocation.output.some =>
        LET out == cargo_result(invocation.output.val)
        IN  /\ invocation.out = out
            /\ invocation.result.kind = "Ok"
                  => /\ invocation.output.val.success
                     /\ invocation.result.val = parse_output(out.val).code
            /\ ~invocation.output.val.success
                  => invocation.result.kind \in {"Err", "Panic"}

SawMissingOrForeign(p) == inv[p].seen.some /\ ~SawOwnFiles(p)

\* C17: a build step observes a missing directory or files it did not
\* write only when the other invocation has the same working directory and
\* has written to it or removed it; and there is an interleaving where
\* this happens (C17_Witness).
C17_ObservedWhenShared ==
    \A p \in Procs :
        SawMissingOrForeign(p) =>
            /\ Dir(Other(p)) = Dir(p)
            /\ {"write_cargo_toml", "create_main_rs", "write_main_rs",
                "remove_dir"} \cap Events(Other(p)) # {}

\* One build has run on the source the other invocation wrote over its
\* own, and the other build has found the directory removed.
C17_Witness ==
    /\ Dir(1) = Dir(2)
    /\ inv[1].seen.some /\ inv[1].seen.val.exists
    /\ inv[1].seen.val.main_rs = inv[2].input_code
    /\ inv[1].input_code # inv[2].input_code
    /\ "remove_dir" \in Events(1)
    /\ inv[2].seen.some /\ ~inv[2].seen.val.exists

\* ------------------------------------------------------------------------
\* Properties of the pattern compiler (checked under SpecArgs)
\* ------------------------------------------------------------------------

\* An integer type, a string or a string slice.
IsInteger(ty) ==
    ty.kind = "Path" /\ ty.args = <<>> /\ last(ty.segments) \in IntegerTypes

IsString(ty) ==
    ty.kind = "Path" /\ ty.args = <<>> /\ last(ty.segments) = "String"

IsStr(ty) ==
    ty.kind = "Reference" /\ ty.elem.kind = "Path"
        /\ last(ty.elem.segments) = "str"

IsScalar(ty) == IsInteger(ty) \/ IsString(ty) \/ IsStr(ty)

\* A list of a scalar type.
IsVec(ty) ==
    /\ ty.kind = "Path" /\ last(ty.segments) = "Vec"
    /\ ty.args # <<>> /\ IsScalar(ty.args[1])

\* The parameter has a name and one of the supported types.
IsSupported(arg) ==
    arg.typed /\ arg.pat = "Ident" /\ (IsScalar(arg.ty) \/ IsVec(arg.ty))

\* The fragment variable of a parameter.
Fragment(name) == <<"$", name \o "_arg">>

\* The pattern and the decode expression of a scalar type.
ScalarPattern(name, ty) ==
    Fragment(name) \o (IF IsInteger(ty) THEN <<":", "literal">>
                       ELSE <<":", "expr">>)

ScalarDecode(name, ty) ==
    IF IsInteger(ty) THEN Fragment(name)
    ELSE IF IsStr(ty)
    THEN <<"crabtime", "::", "stringify_if_needed", "!", "{">>
            \o Fragment(name) \o <<"}">>
    ELSE <<"crabtime", "::", "stringify_if_needed", "!", "(">>
            \o Fragment(name) \o <<")", ".", "to_string", "(", ")">>

\* The pattern and the binding of a parameter of a supported type.
ParamPattern(arg) ==
    IF IsVec(arg.ty)
    THEN <<"[", "$", "(">> \o ScalarPattern(arg.name, arg.ty.args[1])
            \o <<")", ",", "*", "$", "(", ",", ")", "?", "]">>
    ELSE ScalarPattern(arg.name, arg.ty)

ParamBinding(arg) ==
    <<"let", arg.name, ":">> \o to_tokens(arg.ty) \o <<"=">>
        \o (IF IsVec(arg.ty)
            THEN <<"[", "$", "(">> \o ScalarDecode(arg.name, arg.ty.args[1])
                    \o <<")", ",", "*", "]", ".", "into_iter", "(", ")", ".",
                         "collect", "(", ")">>
            ELSE ScalarDecode(arg.name, arg.ty))
        \o <<";">>

RECURSIVE JoinedPatterns(_)
\* The patterns of the parameters, separated by commas.
JoinedPatterns(args) ==
    IF args = <<>> THEN <<>>
    ELSE IF Len(args) = 1 THEN ParamPattern(args[1])
    ELSE ParamPattern(args[1]) \o <<",">> \o JoinedPatterns(Tail(args))

RECURSIVE Bindings(_)
\* The bindings of the parameters, one after the other.
Bindings(args) ==
    IF args = <<>> THEN <<>>
    ELSE ParamBinding(args[1]) \o Bindings(Tail(args))

\* The tokens of a token stream.
Tokens(stream) == {stream[i] : i \in 1..Len(stream)}

\* C18 as stated: for parameters of supported types (integers, String,
\* &str, Vec of these) the pattern is the parameters' patterns in order,
\* separated by commas and followed by an optional comma, and the decode
\* code is one binding per parameter in order.
C18_Original ==
    pa.pc = "parsed" /\ pa.args # <<>>
        /\ (\A i \in 1..Len(pa.args) : IsSupported(pa.args[i]))
    => /\ pa.result.some
       /\ pa.result.val.args
             = Args_Pattern(JoinedPatterns(pa.args) \o <<"$", "(", ",", ")", "?">>)
       /\ pa.result.val.code = Bindings(pa.args)

\* C19 as stated: a parameter of an unsupported type leaves nothing in the
\* result, no fragment in the pattern and no binding in the decode code,
\* and parse_args does not fail.
C19_Original ==
    pa.pc = "parsed" /\ pa.acc.is_first = FALSE
    => /\ pa.result.some
       /\ \A i \in 1..Len(pa.args) :
             pa.args[i].typed /\ pa.args[i].pat = "Ident"
                 /\ ~IsSupported(pa.args[i])
             => /\ Fragment(pa.args[i].name)[2]
                      \notin Tokens(pa.result.val.args.str)
                /\ pa.args[i].name \notin Tokens(pa.result.val.code)

\* C20 as stated: with parameters, the first neither a raw capture nor an
\* explicit pattern, and no pattern derivable for any of them,
\* function_impl returns the error that describes the two supported forms.
C20_Original ==
    pa.pc = "done" /\ pa.args # <<>>
        /\ ~parse_args_for_pattern(pa.args[1]).some
        /\ ~parse_args_for_token_stream(pa.args[1]).some
        /\ (\A i \in 1..Len(pa.args) : ~IsSupported(pa.args[i]))
    => pa.out = Err(WRONG_ARGS)

\* ------------------------------------------------------------------------
\* Reuse of a working directory (checked under Spec)
\* ------------------------------------------------------------------------

\* The manifest and the source in the working directory of invocation p
\* are the ones of p.
HoldsOwnFiles(p) ==
    /\ fs[Dir(p)].cargo_toml = Some(print(inv[p].cfg))
    /\ fs[Dir(p)].main_rs = inv[p].input_code

\* C28: whenever the build step is about to start, and whenever it has
\* started, the manifest and the source of the working directory are the
\* ones of the current invocation, also in a directory an earlier run left
\* with other files.
C28_Overwritten ==
    \A p \in Procs :
        /\ inv[p].pc \in {"get_host_target", "cargo_run"} => HoldsOwnFiles(p)
        /\ inv[p].seen.some =>
              /\ inv[p].seen.val.cargo_toml = Some(print(inv[p].cfg))
              /\ inv[p].seen.val.main_rs = inv[p].input_code

\* A second run in the directory the first run left: the manifest has been
\* written over, and the source is still the one of the first run.
C28_Witness ==
    \E p \in Procs :
        /\ runs = 2 /\ nightly
        /\ inv[p].pc = "create_main_rs"
        /\ inv[p].was_cached
        /\ fs[Dir(p)].cargo_toml = Some(print(inv[p].cfg))
        /\ fs[Dir(p)].main_rs.some /\ fs[Dir(p)].main_rs # EmptyFile
        /\ fs[Dir(p)].main_rs # inv[p].input_code
        /\ fs[Dir(p)].main_rs.val.body # inv[p].item.body

\* ------------------------------------------------------------------------
\* Properties of the form expanders (checked under SpecExpand)
\* ------------------------------------------------------------------------

\* A stream without the places its tokens stand at.
RECURSIVE Structure(_)
Structure(tokens) ==
    [i \in 1..Len(tokens) |->
        CASE tokens[i].kind = "Group" ->
                [kind |-> "Group", delimiter |-> tokens[i].delimiter,
                 stream |-> Structure(tokens[i].stream)]
          [] tokens[i].kind = "Punct" ->
                [kind |-> "Punct", ch |-> tokens[i].ch, spacing |-> tokens[i].spacing]
          [] tokens[i].kind = "Ident" -> [kind |-> "Ident", text |-> tokens[i].text]
          [] tokens[i].kind = "Literal" -> [kind |-> "Literal", value |-> tokens[i].value]]

\* The tokens from the i-th on.
From(tokens, i) == SubSeq(tokens, i, Len(tokens))

\* The forms crabtime::name!(..) of a stream, at any depth of its groups.
RECURSIVE CountBuiltin(_, _)
CountBuiltin(name, tokens) ==
    IF tokens = <<>> THEN 0
    ELSE (IF is_builtin(name, tokens) THEN 1 ELSE 0)
         + (IF tokens[1].kind = "Group" THEN CountBuiltin(name, tokens[1].stream) ELSE 0)
         + CountBuiltin(name, Tail(tokens))

HasBuiltin(name, tokens) == CountBuiltin(name, tokens) > 0

\* The sequences expand ! group of a stream, at any depth of its groups.
RECURSIVE CountExpand(_)
CountExpand(tokens) ==
    IF tokens = <<>> THEN 0
    ELSE (IF is_expand(tokens) THEN 1 ELSE 0)
         + (IF tokens[1].kind = "Group" THEN CountExpand(tokens[1].stream) ELSE 0)
         + CountExpand(Tail(tokens))

\* C21: after the capture pass and the emit pass no emit form and no capture
\* form is left at any depth, and the body holds as many appends to the
\* output buffer (crabtime::write_ln!(..)) as it had emit forms, those
\* inside a capture form or inside another emit form included.
C21_Original ==
    ex.pc = "output" =>
        /\ ~HasBuiltin("output", ex.output.output)
        /\ ~HasBuiltin("quote", ex.output.output)
        /\ CountBuiltin("write_ln", ex.output.output) = CountBuiltin("output", ex.input)

\* The code f makes, as it begins a stream.
IsGenerated(name, tokens) ==
    IF name = "output"
    THEN /\ is_builtin("write_ln", tokens)
         /\ Len(tokens) >= 7
         /\ tokens[7].kind = "Punct" /\ tokens[7].ch = ";"
    ELSE /\ Len(tokens) >= 3
         /\ tokens[1].kind = "Ident" /\ tokens[1].text = "format"
         /\ tokens[2].kind = "Punct" /\ tokens[2].ch = "!"
         /\ tokens[3].kind = "Group"

GeneratedLength(name) == IF name = "output" THEN 7 ELSE 3

\* A stream where every form of the name is one mark: what is outside the
\* forms, in its order and its groups.
RECURSIVE OutsideForms(_, _)
OutsideForms(name, tokens) ==
    IF tokens = <<>> THEN <<>>
    ELSE IF is_builtin(name, tokens)
    THEN <<[kind |-> "Form"]>> \o OutsideForms(name, From(tokens, 7))
    ELSE IF tokens[1].kind = "Group"
    THEN <<[kind |-> "Group", delimiter |-> tokens[1].delimiter,
            stream |-> OutsideForms(name, tokens[1].stream)]>>
         \o OutsideForms(name, Tail(tokens))
    ELSE Structure(<<tokens[1]>>) \o OutsideForms(name, Tail(tokens))

\* A stream where every piece of generated code is one mark.
RECURSIVE OutsideGenerated(_, _)
OutsideGenerated(name, tokens) ==
    IF tokens = <<>> THEN <<>>
    ELSE IF IsGenerated(name, tokens)
    THEN <<[kind |-> "Form"]>>
         \o OutsideGenerated(name, From(tokens, GeneratedLength(name) + 1))
    ELSE IF tokens[1].kind = "Group"
    THEN <<[kind |-> "Group", delimiter |-> tokens[1].delimiter,
            stream |-> OutsideGenerated(name, tokens[1].stream)]>>
         \o OutsideGenerated(name, Tail(tokens))
    ELSE Structure(<<tokens[1]>>) \o OutsideGenerated(name, Tail(tokens))

FrameOf(name, input, result) ==
    /\ OutsideGenerated(name, result) = OutsideForms(name, input)
    /\ ~HasBuiltin(name, input) => Structure(result) = Structure(input)

\* C22: a pass of the expander leaves what is outside the matched forms as
\* it was: the tokens in their order, the groups with their delimiter around
\* the rewritten interior; a stream without a form comes back as it was.
C22_Frame ==
    /\ ex.pc \in {"quote", "output"} => FrameOf("quote", ex.input, ex.quote.output)
    /\ ex.pc = "output" => FrameOf("output", ex.quote.output, ex.output.output)

\* A form in a parenthesized group that is not the group of a form, after
\* another token.
C22_Witness ==
    /\ ex.pc = "output"
    /\ \E i \in 2..Len(ex.input) :
          /\ ex.input[i].kind = "Group"
          /\ ex.input[i].delimiter = "Parenthesis"
          /\ i >= 6 => ~is_builtin("output", From(ex.input, i - 5))
          /\ HasBuiltin("output", ex.input[i].stream)
          /\ ex.input[i - 1].kind = "Ident"

\* C27: f is always applied to an interior that the same pass has expanded
\* already: no stream f was called with holds a form of the name of the
\* pass, at any depth.
C27_BottomUp ==
    /\ ex.pc \in {"quote", "output"} =>
          \A i \in 1..Len(ex.quote.calls) : ~HasBuiltin("quote", ex.quote.calls[i])
    /\ ex.pc = "output" =>
          \A i \in 1..Len(ex.output.calls) : ~HasBuiltin("output", ex.output.calls[i])

\* An emit form inside the group of an emit form: f was called for the
\* inner one first, then for the outer one.
C27_Witness ==
    /\ ex.pc = "output"
    /\ \E i \in 1..Len(ex.input) :
          /\ is_builtin("output", From(ex.input, i))
          /\ HasBuiltin("output", ex.input[i + 5].stream)
    /\ Len(ex.output.calls) >= 2

\* C29: what expand_expand_macro returns holds no expand ! group at any
\* depth, and a second application gives the same stream.
C29_Original ==
    ex.pc = "expand" =>
        /\ CountExpand(ex.expand) = 0
        /\ Structure(expand_expand_macro(ex.expand)) = Structure(ex.expand)

\* ------------------------------------------------------------------------
\* Properties of the token serializer (checked under SpecPrint)
\* ------------------------------------------------------------------------

Braces == {"{", "}"}

\* The text print_tokens_internal assembled for the body.
Assembled == print_tokens_internal(ex.input).output

\* How many times the first piece of a text stands at its beginning.
RECURSIVE RunLength(_)
RunLength(text) ==
    IF Len(text) >= 2 /\ text[2] = text[1] THEN 1 + RunLength(Tail(text)) ELSE 1

Repeated(c, n) == [i \in 1..n |-> c]

\* A text in which every run of n equal braces has been doubled and every
\* four braces of the 2n then made into `width` braces, from the left.
RECURSIVE EscapedRuns(_, _)
EscapedRuns(text, width) ==
    IF text = <<>> THEN <<>>
    ELSE IF text[1] \in Braces
    THEN LET n == RunLength(text)
         IN  Repeated(text[1], width * (n \div 2) + 2 * (n % 2))
             \o EscapedRuns(Drop(text, n), width)
    ELSE <<text[1]>> \o EscapedRuns(Tail(text), width)

\* C23 as the specification states it: every brace of the assembled text is
\* doubled, and every four braces this makes become two.
C23_Original ==
    ex.pc = "printed" => ex.text = EscapedRuns(Assembled, 2)

\* C23: every brace of the assembled text is doubled, and every four
\* braces this makes become one: a lone brace comes out as two, two
\* braces side by side as one.
C23_CollapsedToSingle ==
    ex.pc = "printed" => ex.text = EscapedRuns(Assembled, 1)

\* A body with two braces side by side and with a lone brace.
C23_Witness ==
    /\ ex.pc = "printed"
    /\ \E i \in 1..Len(Assembled) :
          Assembled[i] \in Braces /\ RunLength(From(Assembled, i)) = 2
    /\ \E i \in 1..Len(Assembled) :
          /\ Assembled[i] \in Braces /\ RunLength(From(Assembled, i)) = 1
          /\ i > 1 => Assembled[i - 1] # Assembled[i]

\* A piece that is a name: no brace, no delimiter, no punctuation, no space.
IsName(c) ==
    c \notin Braces \cup {"(", ")", "[", "]", ":", "!", ",", ";", "-", ">", "=",
                          "'", " ", "\n"}

\* The braces and placeholders of a body as it is written: {{name}} is a
\* placeholder, every other brace stands for itself.
RECURSIVE WrittenBraces(_)
WrittenBraces(source) ==
    IF source = <<>> THEN <<>>
    ELSE IF /\ Len(source) >= 5
            /\ SubSeq(source, 1, 2) = <<"{", "{">>
            /\ IsName(source[3])
            /\ SubSeq(source, 4, 5) = <<"}", "}">>
    THEN <<[arg |-> <<source[3]>>]>> \o WrittenBraces(Drop(source, 5))
    ELSE IF source[1] \in Braces
    THEN <<[lit |-> source[1]]>> \o WrittenBraces(Tail(source))
    ELSE WrittenBraces(Tail(source))

\* The braces and placeholders of a formatted text.
RECURSIVE FormattedBraces(_)
FormattedBraces(formatted) ==
    IF formatted = <<>> THEN <<>>
    ELSE (IF "arg" \in DOMAIN Head(formatted) \/ Head(formatted).lit \in Braces
          THEN <<Head(formatted)>> ELSE <<>>)
         \o FormattedBraces(Tail(formatted))

\* C24: the serialized body is a template that formats, and formatting it
\* gives every brace of the body once, in its place, and one interpolation
\* of name for every {{name}}.
C24_Original ==
    ex.pc = "formatted" =>
        /\ ex.formatted.ok
        /\ FormattedBraces(ex.formatted.val) = WrittenBraces(ex.source)

\* A text with a line break read as a space, without the spaces at its ends,
\* and without the spaces that do not stand next to a brace.
RECURSIVE BraceSpacing(_, _)
BraceSpacing(text, before) ==
    IF text = <<>> THEN <<>>
    ELSE LET c == IF text[1] = "\n" THEN " " ELSE text[1]
         IN  IF c = " " /\ ~(before \in Braces
                             \/ (Len(text) >= 2 /\ text[2] \in Braces))
             THEN BraceSpacing(Tail(text), c)
             ELSE <<c>> \o BraceSpacing(Tail(text), c)

\* C25: next to a brace the serialized text has a space exactly where the
\* body has one: none where the brace touches its neighbour, one where the
\* two are apart.
C25_Original ==
    ex.pc = "printed" =>
        BraceSpacing(trim(Assembled), " ") = BraceSpacing(trim(ex.source), " ")

\* No two braces of the same kind follow each other in the body, spaces
\* between them or not.
NoAdjacentBraces(source) ==
    LET tight == SelectSeq(source, LAMBDA c : c \notin {" ", "\n"})
    IN  \A i \in 1..(Len(tight) - 1) :
            tight[i] \in Braces => tight[i + 1] # tight[i]

\* C26: for a body without braces side by side, the serialized text read as
\* tokens again is the tree that was serialized: the same tokens, in the
\* same order, with the same spacing of punctuation, in the same groups.
C26_Original ==
    ex.pc = "printed" /\ NoAdjacentBraces(ex.source) =>
        LET again == tokenize(Assembled)
        IN  again.ok /\ Structure(again.val) = Structure(ex.input)

====
